---- MODULE Spec2Model ----
(***************************************************************************)
(* A model of bareUtils: the header accessors and the parser registry      *)
(* (bareutils/header.py), the cookie and date codecs (bareutils/cookies.py,*)
(* bareutils/dates), and the compression middleware                        *)
(* (bareutils/compression/middleware.py).                                  *)
(*                                                                         *)
(* Conventions.                                                            *)
(*  - A Python bytes/str value is a sequence of one-character strings.     *)
(*  - Header names are only ever compared for equality, so a header name   *)
(*    is a TLA+ string; a header is <<name, value>>.                       *)
(*  - Optional[T]: None is <<>>, a present value v is <<v>>.               *)
(*  - A Python dict is an association list <<key, value>> in insertion     *)
(*    order with unique keys (Python dicts keep insertion order).          *)
(*  - A call that may raise returns Ok(v) or Raise(exception name).        *)
(*  - A float quality is an integer number of thousandths.                 *)
(*  - Each component has one record variable; a specification runs one     *)
(*    component and leaves the others idle.                                *)
(***************************************************************************)
EXTENDS Integers, Sequences, FiniteSets, TLC

VARIABLES neg, sc, dt, ck, col, mw, cz, gt, up, st, cc, hd

vars == <<neg, sc, dt, ck, col, mw, cz, gt, up, st, cc, hd>>

Idle == [pc |-> "idle"]

(***************************************************************************)
(* Python values                                                           *)
(***************************************************************************)
None == <<>>

Some(v) == <<v>>

Ok(v) == [ok |-> TRUE, val |-> v]

Raise(e) == [ok |-> FALSE, exc |-> e]

(* The value a call returned, as an Optional; its exception otherwise *)
OkSome(r) == IF r.ok THEN Ok(Some(r.val)) ELSE r

(* bytes.startswith *)
StartsWith(s, p) == Len(p) <= Len(s) /\ SubSeq(s, 1, Len(p)) = p

(* bytes.find from position i (1-based); 0 when absent *)
RECURSIVE FindFrom(_, _, _)
FindFrom(s, sep, i) ==
    IF i + Len(sep) - 1 > Len(s) THEN 0
    ELSE IF SubSeq(s, i, i + Len(sep) - 1) = sep THEN i
    ELSE FindFrom(s, sep, i + 1)

(* bytes.partition(sep): <<head, sep or empty, tail>> *)
Partition(s, sep) ==
    LET i == FindFrom(s, sep, 1)
    IN  IF i = 0 THEN <<s, <<>>, <<>>>>
        ELSE <<SubSeq(s, 1, i - 1), sep, SubSeq(s, i + Len(sep), Len(s))>>

(* bytes.split(sep): never empty, b''.split(sep) = [b''] *)
RECURSIVE Split(_, _)
Split(s, sep) ==
    LET i == FindFrom(s, sep, 1)
    IN  IF i = 0 THEN <<s>>
        ELSE <<SubSeq(s, 1, i - 1)>> \o Split(SubSeq(s, i + Len(sep), Len(s)), sep)

(* bytes.split(sep, maxsplit=n) *)
RECURSIVE SplitMax(_, _, _)
SplitMax(s, sep, n) ==
    LET i == FindFrom(s, sep, 1)
    IN  IF n = 0 \/ i = 0 THEN <<s>>
        ELSE <<SubSeq(s, 1, i - 1)>>
                 \o SplitMax(SubSeq(s, i + Len(sep), Len(s)), sep, n - 1)

(* sep.join(parts) *)
RECURSIVE Join(_, _)
Join(parts, sep) ==
    IF Len(parts) = 0 THEN <<>>
    ELSE IF Len(parts) = 1 THEN parts[1]
    ELSE parts[1] \o sep \o Join(Tail(parts), sep)

(* bytes.rstrip(chars): drops every trailing byte that is in chars *)
RECURSIVE RStrip(_, _)
RStrip(s, chars) ==
    IF Len(s) > 0 /\ s[Len(s)] \in chars THEN RStrip(SubSeq(s, 1, Len(s) - 1), chars)
    ELSE s

RECURSIVE LStrip(_, _)
LStrip(s, chars) ==
    IF Len(s) > 0 /\ s[1] \in chars THEN LStrip(Tail(s), chars)
    ELSE s

Whitespace == {" ", "\t", "\n", "\r"}

(* bytes.strip() *)
Strip(s) == LStrip(RStrip(s, Whitespace), Whitespace)

DigitChars == <<"0", "1", "2", "3", "4", "5", "6", "7", "8", "9">>

IsDigit(c) == \E i \in 1..10 : DigitChars[i] = c

DigitVal(c) == (CHOOSE i \in 1..10 : DigitChars[i] = c) - 1

AllDigits(s) == \A i \in 1..Len(s) : IsDigit(s[i])

RECURSIVE DecVal(_)
DecVal(s) == IF Len(s) = 0 THEN 0 ELSE 10 * DecVal(SubSeq(s, 1, Len(s) - 1)) + DigitVal(s[Len(s)])

(* int(bytes): optional surrounding whitespace, optional sign, decimal digits *)
ParseInt(s) ==
    LET t == Strip(s)
        neg_ == Len(t) > 0 /\ t[1] = "-"
        body == IF Len(t) > 0 /\ t[1] \in {"-", "+"} THEN Tail(t) ELSE t
    IN  IF Len(body) = 0 \/ ~AllDigits(body) THEN Raise("ValueError")
        ELSE Ok(IF neg_ THEN 0 - DecVal(body) ELSE DecVal(body))

(* float(bytes) on plain decimals [sign]digits[.digits], in thousandths *)
FloatOfParts(negative, p) ==
    LET d(i) == IF i <= Len(p[3]) THEN DigitVal(p[3][i]) ELSE 0
        milli == 1000 * DecVal(p[1]) + 100 * d(1) + 10 * d(2) + d(3)
    IN  IF Len(p[1]) + Len(p[3]) = 0 \/ ~AllDigits(p[1]) \/ ~AllDigits(p[3])
        THEN Raise("ValueError")
        ELSE Ok(IF negative THEN 0 - milli ELSE milli)

FloatOfStripped(t) ==
    FloatOfParts(Len(t) > 0 /\ t[1] = "-",
                 Partition(IF Len(t) > 0 /\ t[1] \in {"-", "+"} THEN Tail(t) ELSE t,
                           <<".">>))

ParseFloat(s) == FloatOfStripped(Strip(s))

(***************************************************************************)
(* dict                                                                    *)
(***************************************************************************)
DictHas(d, k) == \E i \in 1..Len(d) : d[i][1] = k

DictGet(d, k) == d[CHOOSE i \in 1..Len(d) : d[i][1] = k][2]

(* d[k] = v: an existing key keeps its position *)
DictSet(d, k, v) ==
    IF DictHas(d, k) THEN [i \in 1..Len(d) |-> IF d[i][1] = k THEN <<k, v>> ELSE d[i]]
    ELSE Append(d, <<k, v>>)

DictKeys(d) == {d[i][1] : i \in 1..Len(d)}

(* dict equality ignores order *)
DictEq(a, b) == {a[i] : i \in 1..Len(a)} = {b[i] : i \in 1..Len(b)}

(***************************************************************************)
(* Header accessors (bareutils/header.py)                                  *)
(***************************************************************************)
index(name, headers) ==
    IF \E i \in 1..Len(headers) : headers[i][1] = name
    THEN (CHOOSE i \in 1..Len(headers) :
              /\ headers[i][1] = name
              /\ \A j \in 1..(i - 1) : headers[j][1] # name) - 1
    ELSE 0 - 1

find(name, headers, default) ==
    LET i == index(name, headers)
    IN  IF i = 0 - 1 THEN default ELSE Some(headers[i + 1][2])

RECURSIVE find_all(_, _)
find_all(name, headers) ==
    IF Len(headers) = 0 THEN <<>>
    ELSE (IF headers[1][1] = name THEN <<headers[1][2]>> ELSE <<>>)
             \o find_all(name, Tail(headers))

(***************************************************************************)
(* Byte-string literals used by the code                                   *)
(***************************************************************************)
b_identity == <<"i", "d", "e", "n", "t", "i", "t", "y">>

b_star == <<"*">>

b_gzip == <<"g", "z", "i", "p">>

b_deflate == <<"d", "e", "f", "l", "a", "t", "e">>

b_br == <<"b", "r">>

b_q == <<"q">>

b_comma_space == <<",", " ">>

b_accept_encoding == <<"a", "c", "c", "e", "p", "t", "-", "e", "n", "c", "o", "d", "i", "n", "g">>

(***************************************************************************)
(* Content negotiation (bareutils/header.py)                               *)
(***************************************************************************)
ACCEPT == "accept"

ACCEPT_CHARSET == "accept-charset"

ACCEPT_ENCODING == "accept-encoding"

ACCEPT_LANGUAGE == "accept-language"

_parse_quality(value) ==
    IF value = <<>> THEN Ok(None)
    ELSE LET parts == Split(value, <<"=">>)
         IN  IF Len(parts) # 2 THEN Raise("ValueError")
             ELSE IF parts[1] # b_q THEN Raise("ValueError")
             ELSE OkSome(ParseFloat(parts[2]))

(* if flag and key not in values: values[key] = v *)
AddIfAbsent(values, flag, key, v) ==
    IF ~values.ok THEN values
    ELSE IF flag /\ ~DictHas(values.val, key) THEN Ok(DictSet(values.val, key, v))
    ELSE values

(* `x or 1.0`: None and 0.0 are both falsy *)
OrOne(q) == IF q = None \/ q[1] = 0 THEN 1000 ELSE q[1]

(* {first: _parse_quality(rest) or 1.0                                     *)
(*  for first, sep, rest in [x.partition(b';') for x in value.split(b', ')]} *)
RECURSIVE QualityItems(_, _)
QualityItems(xs, acc) ==
    IF Len(xs) = 0 THEN Ok(acc)
    ELSE LET p == Partition(xs[1], <<";">>)
             q == _parse_quality(p[3])
         IN  IF ~q.ok THEN q
             ELSE QualityItems(Tail(xs), DictSet(acc, p[1], OrOne(q.val)))

_parse_accept_charset(value, add_wildcard) ==
    AddIfAbsent(QualityItems(Split(value, b_comma_space), <<>>), add_wildcard, b_star, 1000)

(* A variant that sets identity to 1.0 whenever the flag is given, listed   *)
(* or not: the membership test dropped                                     *)
_parse_accept_encoding_forcing(value, add_identity) ==
    LET encodings == QualityItems(Split(value, b_comma_space), <<>>)
    IN  IF ~encodings.ok THEN encodings
        ELSE IF add_identity
             THEN Ok(DictSet(encodings.val, b_identity, 1000))
             ELSE encodings

_parse_accept_encoding(value, add_identity) ==
    AddIfAbsent(QualityItems(Split(value, b_comma_space), <<>>), add_identity, b_identity, 1000)

_parse_accept_language(value, add_wildcard) ==
    AddIfAbsent(QualityItems(Split(value, b_comma_space), <<>>), add_wildcard, b_star, 1000)

(* A media-type parameter value: a float for q, the stripped token otherwise *)
FloatParam(n) == [kind |-> "float", num |-> n, raw |-> <<>>]

BytesParam(b) == [kind |-> "bytes", num |-> 0, raw |-> b]

RECURSIVE AcceptParams(_, _)
AcceptParams(params, acc) ==
    IF Len(params) = 0 THEN Ok(acc)
    ELSE LET p == Partition(params[1], <<"=">>)
             f == ParseFloat(Strip(p[3]))
         IN  IF p[1] = b_q
             THEN IF ~f.ok THEN f
                  ELSE AcceptParams(Tail(params),
                                    DictSet(acc, Strip(p[1]), FloatParam(f.val)))
             ELSE AcceptParams(Tail(params),
                               DictSet(acc, Strip(p[1]), BytesParam(Strip(p[3]))))

_parse_accept_params(value) ==
    IF value = <<>> THEN Ok(<<<<b_q, FloatParam(1000)>>>>)
    ELSE AcceptParams(Split(value, <<";">>), <<>>)

RECURSIVE AcceptItems(_, _)
AcceptItems(xs, acc) ==
    IF Len(xs) = 0 THEN Ok(acc)
    ELSE LET p == Partition(Strip(xs[1]), <<";">>)
             params == _parse_accept_params(p[3])
         IN  IF ~params.ok THEN params
             ELSE AcceptItems(Tail(xs), DictSet(acc, p[1], params.val))

_parse_accept(value, add_wildcard) ==
    AddIfAbsent(AcceptItems(Split(value, <<",">>), <<>>), add_wildcard, b_star,
                <<<<b_q, FloatParam(1000)>>>>)

(* The accessors: the default (None) when the header is absent *)
accept(headers, add_wildcard) ==
    LET value == find(ACCEPT, headers, None)
    IN  IF value = None THEN Ok(None)
        ELSE OkSome(_parse_accept(value[1], add_wildcard))

accept_charset(headers, add_wildcard) ==
    LET value == find(ACCEPT_CHARSET, headers, None)
    IN  IF value = None THEN Ok(None)
        ELSE OkSome(_parse_accept_charset(value[1], add_wildcard))

accept_encoding(headers, add_identity) ==
    LET value == find(ACCEPT_ENCODING, headers, None)
    IN  IF value = None THEN Ok(None)
        ELSE OkSome(_parse_accept_encoding(value[1], add_identity))

accept_language(headers, add_wildcard) ==
    LET value == find(ACCEPT_LANGUAGE, headers, None)
    IN  IF value = None THEN Ok(None)
        ELSE OkSome(_parse_accept_language(value[1], add_wildcard))

(***************************************************************************)
(* Sequences of bounded length                                             *)
(***************************************************************************)
SeqsBetween(S, lo, hi) == UNION {[1..k -> S] : k \in lo..hi}


(***************************************************************************)
(* The content-negotiation accessors, driven over header values written in *)
(* the quality-value grammar: tokens joined by ", ", each with an optional *)
(* ";name=value" qualifier.                                                *)
(***************************************************************************)
MaxTokens == 2

NegTokens == {b_gzip, b_identity, b_star}

(* A qualifier as written, with the quality its text denotes *)
NoQualifier == [name |-> <<>>, text |-> <<>>, milli |-> 1000]

NegQualifiers ==
    { NoQualifier,
      [name |-> b_q, text |-> <<"0">>, milli |-> 0],
      [name |-> b_q, text |-> <<"0", ".", "5">>, milli |-> 500],
      [name |-> b_q, text |-> <<"1", ".", "0">>, milli |-> 1000],
      [name |-> <<"x">>, text |-> <<"0", ".", "5">>, milli |-> 500] }

NegItems == [tok : NegTokens, qual : NegQualifiers]

RenderItem(item) ==
    item.tok \o (IF item.qual = NoQualifier THEN <<>>
                 ELSE <<";">> \o item.qual.name \o <<"=">> \o item.qual.text)

RenderItems(items) ==
    Join([i \in 1..Len(items) |-> RenderItem(items[i])], b_comma_space)

NegParsers == {ACCEPT, ACCEPT_CHARSET, ACCEPT_ENCODING, ACCEPT_LANGUAGE}

NegInit ==
    /\ \E parser \in NegParsers, items \in SeqsBetween(NegItems, 0, MaxTokens),
          flag \in BOOLEAN :
           neg = [pc |-> "start", parser |-> parser, items |-> items, flag |-> flag,
                  headers |-> IF Len(items) = 0 THEN <<>>
                              ELSE <<<<parser, RenderItems(items)>>>>,
                  out |-> None]
    /\ sc = Idle /\ dt = Idle /\ ck = Idle /\ col = Idle /\ mw = Idle
    /\ cz = Idle /\ gt = Idle /\ up = Idle
    /\ st = Idle /\ cc = Idle /\ hd = Idle

CallAccept ==
    /\ neg.pc = "start" /\ neg.parser = ACCEPT
    /\ neg' = [neg EXCEPT !.pc = "done", !.out = accept(neg.headers, neg.flag)]
    /\ UNCHANGED <<sc, dt, ck, col, mw, cz, gt, up, st, cc, hd>>

CallAcceptCharset ==
    /\ neg.pc = "start" /\ neg.parser = ACCEPT_CHARSET
    /\ neg' = [neg EXCEPT !.pc = "done", !.out = accept_charset(neg.headers, neg.flag)]
    /\ UNCHANGED <<sc, dt, ck, col, mw, cz, gt, up, st, cc, hd>>

CallAcceptEncoding ==
    /\ neg.pc = "start" /\ neg.parser = ACCEPT_ENCODING
    /\ neg' = [neg EXCEPT !.pc = "done", !.out = accept_encoding(neg.headers, neg.flag)]
    /\ UNCHANGED <<sc, dt, ck, col, mw, cz, gt, up, st, cc, hd>>

CallAcceptLanguage ==
    /\ neg.pc = "start" /\ neg.parser = ACCEPT_LANGUAGE
    /\ neg' = [neg EXCEPT !.pc = "done", !.out = accept_language(neg.headers, neg.flag)]
    /\ UNCHANGED <<sc, dt, ck, col, mw, cz, gt, up, st, cc, hd>>

NegNext == CallAccept \/ CallAcceptCharset \/ CallAcceptEncoding \/ CallAcceptLanguage

(***************************************************************************)
(* Date codec (bareutils/cookies.py, bareutils/dates)                      *)
(* A datetime is [year, month, day, hour, minute, second], always UTC.     *)
(***************************************************************************)
DAY_NAMES ==
    <<<<"M", "o", "n">>,
      <<"T", "u", "e">>,
      <<"W", "e", "d">>,
      <<"T", "h", "u">>,
      <<"F", "r", "i">>,
      <<"S", "a", "t">>,
      <<"S", "u", "n">>>>

MONTH_NAMES ==
    <<<<"J", "a", "n">>,
      <<"F", "e", "b">>,
      <<"M", "a", "r">>,
      <<"A", "p", "r">>,
      <<"M", "a", "y">>,
      <<"J", "u", "n">>,
      <<"J", "u", "l">>,
      <<"A", "u", "g">>,
      <<"S", "e", "p">>,
      <<"O", "c", "t">>,
      <<"N", "o", "v">>,
      <<"D", "e", "c">>>>

(* tuple.index *)
IndexOf(names, x) == CHOOSE i \in 1..Len(names) : names[i] = x

IsName(names, x) == \E i \in 1..Len(names) : names[i] = x

IsLeap(y) == (y % 4 = 0) /\ ((y % 100 # 0) \/ (y % 400 = 0))

DaysInMonth(y, m) ==
    IF m = 2 THEN (IF IsLeap(y) THEN 29 ELSE 28)
    ELSE IF m \in {4, 6, 9, 11} THEN 30 ELSE 31

RECURSIVE DaysBeforeMonth(_, _)
DaysBeforeMonth(y, m) ==
    IF m = 1 THEN 0 ELSE DaysBeforeMonth(y, m - 1) + DaysInMonth(y, m - 1)

(* datetime.toordinal: 1 is Monday 1 January of year 1 *)
Ordinal(y, m, d) ==
    LET p == y - 1
    IN  p * 365 + (p \div 4) - (p \div 100) + (p \div 400) + DaysBeforeMonth(y, m) + d

(* datetime.weekday(): Monday is 0 *)
Weekday(t) == (Ordinal(t.year, t.month, t.day) + 6) % 7

(* The datetime constructor, which validates its fields *)
datetime(year, month, day, hour, minute, second) ==
    IF /\ year \in 1..9999
       /\ month \in 1..12
       /\ day >= 1 /\ day <= DaysInMonth(year, month)
       /\ hour \in 0..23 /\ minute \in 0..59 /\ second \in 0..59
    THEN Ok([year |-> year, month |-> month, day |-> day,
             hour |-> hour, minute |-> minute, second |-> second])
    ELSE Raise("ValueError")

(* \d{n} at positions i..i+n-1 *)
DigitsAt(s, i, n) == AllDigits(SubSeq(s, i, i + n - 1))

(* `$` matches at the end and before a final newline *)
AtEnd(s, n) == Len(s) = n \/ (Len(s) = n + 1 /\ s[n + 1] = "\n")

(* ^(Mon|...), (\d{2}) (Jan|...) (\d{4}) (\d{2}):(\d{2}):(\d{2}) GMT$ *)
DATE_PATTERN_RFC7231(s) ==
    /\ AtEnd(s, 29)
    /\ IsName(DAY_NAMES, SubSeq(s, 1, 3))
    /\ SubSeq(s, 4, 5) = <<",", " ">>
    /\ DigitsAt(s, 6, 2)
    /\ s[8] = " "
    /\ IsName(MONTH_NAMES, SubSeq(s, 9, 11))
    /\ s[12] = " "
    /\ DigitsAt(s, 13, 4)
    /\ s[17] = " "
    /\ DigitsAt(s, 18, 2) /\ s[20] = ":"
    /\ DigitsAt(s, 21, 2) /\ s[23] = ":"
    /\ DigitsAt(s, 24, 2)
    /\ SubSeq(s, 26, 29) = <<" ", "G", "M", "T">>

(* ^(Mon|...), (\d{2})-(Jan|...)-(\d{2}) (\d{2}):(\d{2}):(\d{2}) GMT$ *)
DATE_PATTERN_RFC850(s) ==
    /\ AtEnd(s, 27)
    /\ IsName(DAY_NAMES, SubSeq(s, 1, 3))
    /\ SubSeq(s, 4, 5) = <<",", " ">>
    /\ DigitsAt(s, 6, 2)
    /\ s[8] = "-"
    /\ IsName(MONTH_NAMES, SubSeq(s, 9, 11))
    /\ s[12] = "-"
    /\ DigitsAt(s, 13, 2)
    /\ s[15] = " "
    /\ DigitsAt(s, 16, 2) /\ s[18] = ":"
    /\ DigitsAt(s, 19, 2) /\ s[21] = ":"
    /\ DigitsAt(s, 22, 2)
    /\ SubSeq(s, 24, 27) = <<" ", "G", "M", "T">>

(* The datetime built from the groups of a DATE_PATTERN_RFC7231 match *)
FromRfc7231Groups(s) ==
    datetime(DecVal(SubSeq(s, 13, 16)),
             1 + (IndexOf(MONTH_NAMES, SubSeq(s, 9, 11)) - 1),
             DecVal(SubSeq(s, 6, 7)),
             DecVal(SubSeq(s, 18, 19)),
             DecVal(SubSeq(s, 21, 22)),
             DecVal(SubSeq(s, 24, 25)))

(* A variant that reads the two-digit year in the 1900s *)
FromRfc850Groups_1900(s) ==
    datetime(1900 + DecVal(SubSeq(s, 13, 14)),
             1 + (IndexOf(MONTH_NAMES, SubSeq(s, 9, 11)) - 1),
             DecVal(SubSeq(s, 6, 7)),
             DecVal(SubSeq(s, 16, 17)),
             DecVal(SubSeq(s, 19, 20)),
             DecVal(SubSeq(s, 22, 23)))

(* The datetime built from the groups of a DATE_PATTERN_RFC850 match *)
FromRfc850Groups(s) ==
    datetime(2000 + DecVal(SubSeq(s, 13, 14)),
             1 + (IndexOf(MONTH_NAMES, SubSeq(s, 9, 11)) - 1),
             DecVal(SubSeq(s, 6, 7)),
             DecVal(SubSeq(s, 16, 17)),
             DecVal(SubSeq(s, 19, 20)),
             DecVal(SubSeq(s, 22, 23)))

(* bareutils/cookies.py *)
cookies_parse_date(value) ==
    IF DATE_PATTERN_RFC7231(value) THEN FromRfc7231Groups(value)
    ELSE IF DATE_PATTERN_RFC850(value) THEN FromRfc850Groups(value)
    ELSE Raise("ParseError")

(* bareutils/dates/rfc_7231.py: None when the pattern does not match *)
rfc_7231_try_parse_date(value) ==
    IF ~DATE_PATTERN_RFC7231(value) THEN Ok(None)
    ELSE LET r == FromRfc7231Groups(value)
         IN  IF r.ok THEN Ok(Some(r.val)) ELSE r

(* bareutils/dates/rfc_850.py *)
rfc_850_try_parse_date(value) ==
    IF ~DATE_PATTERN_RFC850(value) THEN Ok(None)
    ELSE LET r == FromRfc850Groups(value)
         IN  IF r.ok THEN Ok(Some(r.val)) ELSE r

(* bareutils/dates/helpers.py: a datetime is always truthy *)
helpers_try_parse_date(value) ==
    LET modern == rfc_7231_try_parse_date(value)
    IN  IF ~modern.ok THEN modern
        ELSE IF modern.val # None THEN modern
        ELSE rfc_850_try_parse_date(value)

helpers_parse_date(value) ==
    LET result == helpers_try_parse_date(value)
    IN  IF ~result.ok THEN result
        ELSE IF result.val = None THEN Raise("ValueError")
        ELSE Ok(result.val[1])

RECURSIVE NatToStr(_)
NatToStr(n) ==
    IF n < 10 THEN <<DigitChars[n + 1]>>
    ELSE NatToStr(n \div 10) \o <<DigitChars[(n % 10) + 1]>>

(* str(int) *)
IntToStr(n) == IF n < 0 THEN <<"-">> \o NatToStr(0 - n) ELSE NatToStr(n)

(* "{:0wd}".format(n) for n >= 0 *)
RECURSIVE ZeroPad(_, _)
ZeroPad(s, w) == IF Len(s) >= w THEN s ELSE ZeroPad(<<"0">> \o s, w)

(* A variant that writes the day of the month unpadded: {mday} *)
format_date_unpadded(value) ==
    DAY_NAMES[Weekday(value) + 1] \o <<",", " ">>
        \o NatToStr(value.day) \o <<" ">>
        \o MONTH_NAMES[(value.month - 1) + 1] \o <<" ">>
        \o ZeroPad(NatToStr(value.year), 4) \o <<" ">>
        \o ZeroPad(NatToStr(value.hour), 2) \o <<":">>
        \o ZeroPad(NatToStr(value.minute), 2) \o <<":">>
        \o ZeroPad(NatToStr(value.second), 2) \o <<" ", "G", "M", "T">>

(* "{day}, {mday:02d} {mon} {year:04d} {hour:02d}:{min:02d}:{sec:02d} GMT" *)
format_date(value) ==
    DAY_NAMES[Weekday(value) + 1] \o <<",", " ">>
        \o ZeroPad(NatToStr(value.day), 2) \o <<" ">>
        \o MONTH_NAMES[(value.month - 1) + 1] \o <<" ">>
        \o ZeroPad(NatToStr(value.year), 4) \o <<" ">>
        \o ZeroPad(NatToStr(value.hour), 2) \o <<":">>
        \o ZeroPad(NatToStr(value.minute), 2) \o <<":">>
        \o ZeroPad(NatToStr(value.second), 2) \o <<" ", "G", "M", "T">>

(***************************************************************************)
(* The date codec driven as the tests drive it: parse a text, format the   *)
(* result, parse the formatted text again.  The texts are written from     *)
(* fields in the modern form "<Dow>, <DD> <Mon> <YYYY> <HH>:<MM>:<SS> GMT" *)
(* or the legacy form "<Dow>, <DD>-<Mon>-<YY> <HH>:<MM>:<SS> GMT"; each    *)
(* field is kept as written together with the number it denotes.          *)
(***************************************************************************)
DtDays ==
    { [text |-> <<"0", "1">>, num |-> 1],
      [text |-> <<"2", "8">>, num |-> 28],
      [text |-> <<"2", "9">>, num |-> 29],
      [text |-> <<"3", "1">>, num |-> 31] }

DtMonths ==
    { [text |-> <<"F", "e", "b">>, num |-> 2],
      [text |-> <<"A", "p", "r">>, num |-> 4],
      [text |-> <<"D", "e", "c">>, num |-> 12] }

DtYears4 ==
    { [text |-> <<"0", "0", "0", "0">>, num |-> 0],
      [text |-> <<"1", "9", "0", "0">>, num |-> 1900],
      [text |-> <<"2", "0", "1", "9">>, num |-> 2019],
      [text |-> <<"2", "0", "2", "0">>, num |-> 2020] }

DtYears2 ==
    { [text |-> <<"0", "0">>, num |-> 0],
      [text |-> <<"1", "9">>, num |-> 19],
      [text |-> <<"2", "0">>, num |-> 20],
      [text |-> <<"9", "9">>, num |-> 99] }

DtHours ==
    { [text |-> <<"0", "0">>, num |-> 0],
      [text |-> <<"0", "7">>, num |-> 7],
      [text |-> <<"2", "3">>, num |-> 23],
      [text |-> <<"2", "4">>, num |-> 24] }

DtMinSecs ==
    { [text |-> <<"0", "0">>, num |-> 0],
      [text |-> <<"5", "9">>, num |-> 59] }

DtForms == {"modern", "legacy"}

DtCodecs == {"cookies", "dates"}

DtText(form, dow, dd, mon, year, hh, ms) ==
    dow \o <<",", " ">> \o dd.text
        \o (IF form = "modern" THEN <<" ">> ELSE <<"-">>) \o mon.text
        \o (IF form = "modern" THEN <<" ">> ELSE <<"-">>) \o year.text
        \o <<" ">> \o hh.text \o <<":">> \o ms.text \o <<":">> \o ms.text
        \o <<" ", "G", "M", "T">>

DtInit ==
    /\ \E codec \in DtCodecs, form \in DtForms, dow \in 1..7, dd \in DtDays,
          mon \in DtMonths, hh \in DtHours, ms \in DtMinSecs :
           \E year \in (IF form = "modern" THEN DtYears4 ELSE DtYears2) :
               dt = [pc |-> "start", codec |-> codec, form |-> form,
                     dow |-> DAY_NAMES[dow], dd |-> dd, mon |-> mon, year |-> year,
                     hh |-> hh, ms |-> ms,
                     text |-> DtText(form, DAY_NAMES[dow], dd, mon, year, hh, ms),
                     parsed |-> None, formatted |-> None, reparsed |-> None]
    /\ neg = Idle /\ sc = Idle /\ ck = Idle /\ col = Idle /\ mw = Idle
    /\ cz = Idle /\ gt = Idle /\ up = Idle
    /\ st = Idle /\ cc = Idle /\ hd = Idle

DtParseWith(codec, text) ==
    IF codec = "cookies" THEN cookies_parse_date(text) ELSE helpers_parse_date(text)

(* value = parse_date(text) *)
DtParse ==
    /\ dt.pc = "start"
    /\ \E r \in {DtParseWith(dt.codec, dt.text)} :
           dt' = [dt EXCEPT !.pc = IF r.ok THEN "parsed" ELSE "failed", !.parsed = r]
    /\ UNCHANGED <<neg, sc, ck, col, mw, cz, gt, up, st, cc, hd>>

(* formatted = format_date(value) *)
DtFormat ==
    /\ dt.pc = "parsed"
    /\ dt' = [dt EXCEPT !.pc = "formatted", !.formatted = format_date(dt.parsed.val)]
    /\ UNCHANGED <<neg, sc, ck, col, mw, cz, gt, up, st, cc, hd>>

(* parsed = parse_date(formatted) *)
DtReparse ==
    /\ dt.pc = "formatted"
    /\ dt' = [dt EXCEPT !.pc = "done",
                        !.reparsed = DtParseWith(dt.codec, dt.formatted)]
    /\ UNCHANGED <<neg, sc, ck, col, mw, cz, gt, up, st, cc, hd>>

DtNext == DtParse \/ DtFormat \/ DtReparse

(***************************************************************************)
(* Cookie codec (bareutils/cookies.py)                                     *)
(***************************************************************************)
UpperLetters ==
    <<"A", "B", "C", "D", "E", "F", "G", "H", "I", "J", "K", "L", "M">>
        \o <<"N", "O", "P", "Q", "R", "S", "T", "U", "V", "W", "X", "Y", "Z">>

LowerLetters ==
    <<"a", "b", "c", "d", "e", "f", "g", "h", "i", "j", "k", "l", "m">>
        \o <<"n", "o", "p", "q", "r", "s", "t", "u", "v", "w", "x", "y", "z">>

LowerChar(c) ==
    IF \E i \in 1..26 : UpperLetters[i] = c
    THEN LowerLetters[CHOOSE i \in 1..26 : UpperLetters[i] = c]
    ELSE c

(* bytes.lower() *)
Lower(s) == [i \in 1..Len(s) |-> LowerChar(s[i])]

b_Secure_prefix == <<"_", "_", "S", "e", "c", "u", "r", "e", "-">>

b_Host_prefix == <<"_", "_", "H", "o", "s", "t", "-">>

(* max_age is an int or a timedelta of whole seconds *)
IntAge(n) == [kind |-> "int", seconds |-> n]

TimedeltaAge(n) == [kind |-> "timedelta", seconds |-> n]

(* `a or b and not c` groups as `a or (b and not c)` *)
encode_set_cookie(name, value, expires, max_age, path, domain, secure, http_only, same_site) ==
    IF StartsWith(name, b_Secure_prefix) \/ (StartsWith(name, b_Host_prefix) /\ ~secure)
    THEN Raise("RuntimeError")
    ELSE Ok(name \o <<"=">> \o value
            \o (IF expires # None
                THEN <<";", " ", "E", "x", "p", "i", "r", "e", "s", "=">> \o format_date(expires[1])
                ELSE <<>>)
            \o (IF max_age # None
                THEN IF max_age[1].kind = "timedelta"
                     THEN <<";", " ", "M", "a", "x", "-", "A", "g", "e", "=">> \o IntToStr(max_age[1].seconds)
                     ELSE <<";", " ", "M", "a", "x", "-", "A", "g", "e", "=">> \o IntToStr(max_age[1].seconds)
                ELSE <<>>)
            \o (IF domain # None THEN <<";", " ", "D", "o", "m", "a", "i", "n", "=">> \o domain[1] ELSE <<>>)
            \o (IF path # None THEN <<";", " ", "P", "a", "t", "h", "=">> \o path[1] ELSE <<>>)
            \o (IF secure THEN <<";", " ", "S", "e", "c", "u", "r", "e">> ELSE <<>>)
            \o (IF http_only THEN <<";", " ", "H", "t", "t", "p", "O", "n", "l", "y">> ELSE <<>>)
            \o (IF same_site # None
                THEN <<";", " ", "S", "a", "m", "e", "S", "i", "t", "e", "=">> \o same_site[1]
                ELSE <<>>))

(* make_cookie's expires argument: a datetime, a timedelta or an int *)
Expiry(kind, at, seconds) == [kind |-> kind, at |-> at, seconds |-> seconds]

(* A variant that passes no max_age on *)
make_cookie_without_age(key, value, expires, path, domain, secure, http_only, same_site) ==
    encode_set_cookie(key, value,
        IF expires # None /\ expires[1].kind = "datetime" THEN Some(expires[1].at) ELSE None,
        None, path, domain, secure, http_only, same_site)

(* expires goes on as `expires` when it is a datetime and as `max_age`     *)
(* when it is an int or a timedelta                                        *)
make_cookie(key, value, expires, path, domain, secure, http_only, same_site) ==
    encode_set_cookie(key, value,
        IF expires # None /\ expires[1].kind = "datetime" THEN Some(expires[1].at) ELSE None,
        IF expires # None /\ expires[1].kind \in {"int", "timedelta"}
        THEN Some([kind |-> expires[1].kind, seconds |-> expires[1].seconds]) ELSE None,
        path, domain, secure, http_only, same_site)

(* A value of the decoded record, tagged with its Python type *)
Val(kind, v) == [kind |-> kind, val |-> v]

k_name == <<"n", "a", "m", "e">>

k_value == <<"v", "a", "l", "u", "e">>

k_secure == <<"s", "e", "c", "u", "r", "e">>

k_httponly == <<"h", "t", "t", "p", "o", "n", "l", "y">>

k_http_only == <<"h", "t", "t", "p", "_", "o", "n", "l", "y">>

k_expires == <<"e", "x", "p", "i", "r", "e", "s">>

k_max_age_attr == <<"m", "a", "x", "-", "a", "g", "e">>

k_max_age == <<"m", "a", "x", "_", "a", "g", "e">>

k_samesite == <<"s", "a", "m", "e", "s", "i", "t", "e">>

k_same_site == <<"s", "a", "m", "e", "_", "s", "i", "t", "e">>

(* The loop over the segments after the first *)
RECURSIVE DecodeAttributes(_, _)
DecodeAttributes(items, result) ==
    IF Len(items) = 0 THEN Ok(result)
    ELSE LET p == Partition(items[1], <<"=">>)
             value == p[3]
             name == Strip(Lower(p[1]))
             rest == Tail(items)
         IN  IF name = k_secure
             THEN DecodeAttributes(rest, DictSet(result, k_secure, Val("bool", TRUE)))
             ELSE IF name = k_httponly
             THEN DecodeAttributes(rest, DictSet(result, k_http_only, Val("bool", TRUE)))
             ELSE IF name = k_expires
             THEN LET d == cookies_parse_date(value)
                  IN  IF ~d.ok THEN d
                      ELSE DecodeAttributes(rest,
                               DictSet(result, k_expires, Val("datetime", d.val)))
             ELSE IF name = k_max_age_attr
             THEN LET n == ParseInt(value)
                  IN  IF ~n.ok THEN n
                      ELSE DecodeAttributes(rest,
                               DictSet(result, k_max_age, Val("timedelta", n.val)))
             ELSE IF name = k_samesite
             THEN DecodeAttributes(rest, DictSet(result, k_same_site, Val("str", value)))
             ELSE DecodeAttributes(rest, DictSet(result, name, Val("bytes", value)))

(* key, value = next(i).split(b'=', maxsplit=2) needs exactly two parts *)
decode_set_cookie(set_cookie) ==
    LET i == Split(set_cookie, <<";">>)
        first == SplitMax(i[1], <<"=">>, 2)
    IN  IF Len(first) # 2 THEN Raise("ValueError")
        ELSE DecodeAttributes(Tail(i),
                 <<<<k_name, Val("bytes", first[1])>>, <<k_value, Val("bytes", first[2])>>>>)

k_path == <<"p", "a", "t", "h">>

k_domain == <<"d", "o", "m", "a", "i", "n">>

(* The keyword argument a decoded record passes for one parameter, if any *)
Kw(d, key) == IF DictHas(d, key) THEN Some(DictGet(d, key).val) ELSE None

(* encode_set_cookie called with the items of a decoded record d as its   *)
(* keyword arguments: a key that is not a                                  *)
(* parameter is a TypeError; a timedelta max_age is written in seconds; a  *)
(* str same_site cannot be added to bytes and is a TypeError               *)
encode_set_cookie_kwargs(d) ==
    IF ~(DictKeys(d) \subseteq {k_name, k_value, k_expires, k_max_age, k_path, k_domain,
                                k_secure, k_http_only, k_same_site})
    THEN Raise("TypeError")
    ELSE IF ~encode_set_cookie(Kw(d, k_name)[1], Kw(d, k_value)[1], None, None, None,
                               None, DictHas(d, k_secure), FALSE, None).ok
    THEN Raise("RuntimeError")
    ELSE IF DictHas(d, k_same_site) /\ DictGet(d, k_same_site).kind = "str"
    THEN Raise("TypeError")
    ELSE encode_set_cookie(Kw(d, k_name)[1], Kw(d, k_value)[1], Kw(d, k_expires),
                           IF DictHas(d, k_max_age)
                           THEN Some(TimedeltaAge(DictGet(d, k_max_age).val)) ELSE None,
                           Kw(d, k_path), Kw(d, k_domain), DictHas(d, k_secure),
                           DictHas(d, k_http_only), Kw(d, k_same_site))

(* The (name, value) pairs of the map, names in dict order, values in list order *)
RECURSIVE CookiePairs(_)
CookiePairs(cookies) ==
    IF Len(cookies) = 0 THEN <<>>
    ELSE [j \in 1..Len(cookies[1][2]) |-> cookies[1][1] \o <<"=">> \o cookies[1][2][j]]
             \o CookiePairs(Tail(cookies))

encode_cookies(cookies) == Join(CookiePairs(cookies), <<";", " ">>)

(* A variant that keeps only the last value of a name: result[name] = [value] *)
RECURSIVE DecodeMorsels_overwriting(_, _)
DecodeMorsels_overwriting(morsels, result) ==
    IF Len(morsels) = 0 THEN result
    ELSE LET p == Partition(morsels[1], <<"=">>)
         IN  DecodeMorsels_overwriting(Tail(morsels), DictSet(result, p[1], <<p[3]>>))

(* result.setdefault(name, []).append(value) for each morsel *)
RECURSIVE DecodeMorsels(_, _)
DecodeMorsels(morsels, result) ==
    IF Len(morsels) = 0 THEN result
    ELSE LET p == Partition(morsels[1], <<"=">>)
             name == p[1]
             old == IF DictHas(result, name) THEN DictGet(result, name) ELSE <<>>
         IN  DecodeMorsels(Tail(morsels), DictSet(result, name, Append(old, p[3])))

decode_cookies(cookies) ==
    DecodeMorsels(Split(RStrip(cookies, {";", " "}), <<";", " ">>), <<>>)

(***************************************************************************)
(* encode_set_cookie called on a cookie, and its header decoded again      *)
(***************************************************************************)
ScNames ==
    { <<"i", "d">>,
      <<"_", "_", "S", "e", "c", "u", "r", "e", "-", "i", "d">>,
      <<"_", "_", "H", "o", "s", "t", "-", "i", "d">>,
      <<"_", "_", "S", "e", "c", "u", "r", "e">>,
      <<"_", "_", "H", "o", "s", "t", "-">>,
      <<"_", "H", "o", "s", "t", "-", "i", "d">> }

ScValues == {<<"v", "1">>, <<"v", "=">>}

ScExpires ==
    {None, Some([year |-> 2015, month |-> 10, day |-> 21,
                 hour |-> 7, minute |-> 28, second |-> 0])}

ScMaxAges == {None, Some(IntAge(3600)), Some(TimedeltaAge(0))}

ScDomains == {None, Some(<<"x", ".", "i", "o">>)}

ScPaths == {None, Some(<<"/">>)}

ScSameSites == {None, Some(<<"L", "a", "x">>)}

ScMakeExpires ==
    {None,
     Some(Expiry("datetime", [year |-> 2015, month |-> 10, day |-> 21,
                              hour |-> 7, minute |-> 28, second |-> 0], 0)),
     Some(Expiry("timedelta", None, 90)),
     Some(Expiry("timedelta", None, 0))}

ScInit ==
    /\ \E name \in ScNames, value \in ScValues, expires \in ScExpires,
          max_age \in ScMaxAges, path \in ScPaths, domain \in ScDomains,
          secure \in BOOLEAN, http_only \in BOOLEAN, same_site \in ScSameSites :
           sc = [pc |-> "start", name |-> name, value |-> value, expires |-> expires,
                 max_age |-> max_age, path |-> path, domain |-> domain,
                 secure |-> secure, http_only |-> http_only, same_site |-> same_site,
                 out |-> None, decoded |-> None, again |-> None, made_with |-> None]
    /\ neg = Idle /\ dt = Idle /\ ck = Idle /\ col = Idle /\ mw = Idle
    /\ cz = Idle /\ gt = Idle /\ up = Idle
    /\ st = Idle /\ cc = Idle /\ hd = Idle

EncodeSetCookie ==
    /\ sc.pc = "start"
    /\ \E r \in {encode_set_cookie(sc.name, sc.value, sc.expires, sc.max_age, sc.path,
                                  sc.domain, sc.secure, sc.http_only, sc.same_site)} :
           sc' = [sc EXCEPT !.pc = IF r.ok THEN "encoded" ELSE "raised", !.out = r]
    /\ UNCHANGED <<neg, dt, ck, col, mw, cz, gt, up, st, cc, hd>>

DecodeSetCookie ==
    /\ sc.pc = "encoded"
    /\ sc' = [sc EXCEPT !.pc = "decoded", !.decoded = decode_set_cookie(sc.out.val)]
    /\ UNCHANGED <<neg, dt, ck, col, mw, cz, gt, up, st, cc, hd>>

(* encode_set_cookie called with the keywords decode_set_cookie returned *)
ReEncodeSetCookie ==
    /\ sc.pc = "decoded" /\ sc.decoded.ok
    /\ sc' = [sc EXCEPT !.pc = "reencoded",
                        !.again = encode_set_cookie_kwargs(sc.decoded.val)]
    /\ UNCHANGED <<neg, dt, ck, col, mw, cz, gt, up, st, cc, hd>>

(* make_cookie called with the cookie's name, value and attributes and an *)
(* expires argument of its own                                             *)
MakeCookie ==
    /\ sc.pc = "start"
    /\ \E expires \in ScMakeExpires :
       \E r \in {make_cookie(sc.name, sc.value, expires, sc.path, sc.domain, sc.secure,
                             sc.http_only, sc.same_site)} :
           sc' = [sc EXCEPT !.pc = IF r.ok THEN "made" ELSE "raised", !.out = r,
                            !.made_with = Some(expires)]
    /\ UNCHANGED <<neg, dt, ck, col, mw, cz, gt, up, st, cc, hd>>

ScNext == EncodeSetCookie \/ DecodeSetCookie \/ ReEncodeSetCookie \/ MakeCookie

(***************************************************************************)
(* encode_cookies called on a cookie map, and its header decoded again     *)
(***************************************************************************)
MaxCookieValues == 2

CkNames == {<<"a">>, <<"s", "i", "d">>}

CkValues == {<<>>, <<"1">>}

CkLists == SeqsBetween(CkValues, 0, MaxCookieValues)

(* The dicts over CkNames, in every insertion order *)
CkMaps ==
    {<<>>}
        \cup {<<<<n, l>>>> : n \in CkNames, l \in CkLists}
        \cup {<<<<p[1], l1>>, <<p[2], l2>>>> :
                  p \in {q \in CkNames \X CkNames : q[1] # q[2]},
                  l1 \in CkLists, l2 \in CkLists}

CkInit ==
    /\ \E m \in CkMaps : ck = [pc |-> "start", m |-> m, header |-> None, decoded |-> None]
    /\ neg = Idle /\ sc = Idle /\ dt = Idle /\ col = Idle /\ mw = Idle
    /\ cz = Idle /\ gt = Idle /\ up = Idle
    /\ st = Idle /\ cc = Idle /\ hd = Idle

EncodeCookies ==
    /\ ck.pc = "start"
    /\ ck' = [ck EXCEPT !.pc = "encoded", !.header = encode_cookies(ck.m)]
    /\ UNCHANGED <<neg, sc, dt, col, mw, cz, gt, up, st, cc, hd>>

DecodeCookies ==
    /\ ck.pc = "encoded"
    /\ ck' = [ck EXCEPT !.pc = "done", !.decoded = decode_cookies(ck.header)]
    /\ UNCHANGED <<neg, sc, dt, col, mw, cz, gt, up, st, cc, hd>>

CkNext == EncodeCookies \/ DecodeCookies

(***************************************************************************)
(* Parser registry and collector (bareutils/header.py)                     *)
(***************************************************************************)
ACCEPT_CH == "accept-ch"

CONTENT_ENCODING == "content-encoding"

CONTENT_LENGTH == "content-length"

COOKIE == "cookie"

SET_COOKIE == "set-cookie"

VARY == "vary"

_Parser(parse, merge_type) == [parse |-> parse, merge_type |-> merge_type]

_DEFAULT_PARSER == _Parser("_pass_through", "APPEND")

_pass_through(value) == value

_parse_int(value) == ParseInt(value)

(* [item.strip() for item in value.split(b',')] *)
_parse_comma_separated_list(value) ==
    LET items == Split(value, <<",">>)
    IN  [i \in 1..Len(items) |-> Strip(items[i])]

_parse_content_encoding(value, add_identity) ==
    LET encodings == Split(value, b_comma_space)
    IN  IF add_identity /\ ~(\E i \in 1..Len(encodings) : encodings[i] = b_identity)
        THEN Append(encodings, b_identity)
        ELSE encodings

_parse_vary(value) == Split(value, b_comma_space)

CONTENT_SECURITY_POLICY == "content-security-policy"
CONTENT_SECURITY_POLICY_REPORT_ONLY == "content-security-policy-report-only"

(* One policy directive after strip().partition(b' '): kept only when the
   separator was found, as (directive.strip(), args.strip().split(b' ')) *)
CspDirective(p) ==
    IF p[2] = <<>> THEN <<>>
    ELSE << <<Strip(p[1]), Split(Strip(p[3]), <<" ">>)>> >>

RECURSIVE CspDirectives(_)
CspDirectives(parts) ==
    IF Len(parts) = 0 THEN <<>>
    ELSE CspDirective(Partition(Strip(parts[1]), <<" ">>)) \o CspDirectives(Tail(parts))

_parse_content_security_policy(value) ==
    CspDirectives(Split(Strip(value), <<";">>))

(* cookies.setdefault(name, []).extend(content) for each decoded cookie *)
RECURSIVE ExtendEach(_, _)
ExtendEach(items, dct) ==
    IF Len(items) = 0 THEN dct
    ELSE LET k == items[1][1]
             old == IF DictHas(dct, k) THEN DictGet(dct, k) ELSE <<>>
         IN  ExtendEach(Tail(items), DictSet(dct, k, old \o items[1][2]))

_parse_cookie(value) == ExtendEach(decode_cookies(value), <<>>)

DATE == "date"

EXPIRES == "expires"

IF_MODIFIED_SINCE == "if-modified-since"

LAST_MODIFIED == "last-modified"

ACCEPT_PATCH == "accept-patch"

(* What datetime.strptime accepts for '%a, %d %b %Y %H:%M:%S %Z' among     *)
(* texts whose fields are written at full width: a day name, a day 01..31, *)
(* a month name, four year digits, an hour 00..23, a minute 00..59, a      *)
(* second 00..61 and GMT, separated by ", ", " " and ":" as in the format. *)
STRPTIME_RFC7231(s) ==
    /\ Len(s) = 29
    /\ IsName(DAY_NAMES, SubSeq(s, 1, 3))
    /\ SubSeq(s, 4, 5) = <<",", " ">>
    /\ DigitsAt(s, 6, 2) /\ DecVal(SubSeq(s, 6, 7)) \in 1..31
    /\ s[8] = " "
    /\ IsName(MONTH_NAMES, SubSeq(s, 9, 11))
    /\ s[12] = " "
    /\ DigitsAt(s, 13, 4)
    /\ s[17] = " "
    /\ DigitsAt(s, 18, 2) /\ DecVal(SubSeq(s, 18, 19)) \in 0..23 /\ s[20] = ":"
    /\ DigitsAt(s, 21, 2) /\ DecVal(SubSeq(s, 21, 22)) \in 0..59 /\ s[23] = ":"
    /\ DigitsAt(s, 24, 2) /\ DecVal(SubSeq(s, 24, 25)) \in 0..61
    /\ SubSeq(s, 26, 29) = <<" ", "G", "M", "T">>

(* bareutils/dates/rfc_7231.py parse_date:                                 *)
(* datetime.strptime(value, '%a, %d %b %Y %H:%M:%S %Z')                    *)
rfc_7231_parse_date(value) ==
    IF STRPTIME_RFC7231(value) THEN FromRfc7231Groups(value) ELSE Raise("ValueError")

(* header.py imports parse_date from .dates.rfc_7231 *)
_parse_date(value) == rfc_7231_parse_date(value)

(* (media_type.strip(), encoding.strip() if encoding else None); the tag   *)
(* before "=" must be exactly charset                                      *)
_parse_media_type_and_encoding(value) ==
    LET p == Partition(value, <<";">>)
        q == Partition(p[3], <<"=">>)
    IN  IF p[2] = <<>> THEN Ok(<<Strip(p[1]), None>>)
        ELSE IF q[1] # <<"c", "h", "a", "r", "s", "e", "t">> THEN Raise("Exception")
        ELSE Ok(<<Strip(p[1]), IF q[3] = <<>> THEN None ELSE Some(Strip(q[3]))>>)

RECURSIVE MediaTypesAndEncodings(_, _)
MediaTypesAndEncodings(items, acc) ==
    IF Len(items) = 0 THEN Ok(acc)
    ELSE LET r == _parse_media_type_and_encoding(items[1])
         IN  IF ~r.ok THEN r
             ELSE MediaTypesAndEncodings(Tail(items), Append(acc, r.val))

(* [_parse_media_type_and_encoding(item) for item in value.split(b',')] *)
_parse_accept_patch(value) == MediaTypesAndEncodings(Split(value, <<",">>), <<>>)

(* _PARSERS.get(name, _DEFAULT_PARSER), for the headers modelled here *)
_PARSERS_get(name) ==
    CASE name = ACCEPT -> _Parser("_parse_accept", "NONE")
      [] name = ACCEPT_CH -> _Parser("_parse_comma_separated_list", "CONCAT")
      [] name = ACCEPT_CHARSET -> _Parser("_parse_accept_charset", "NONE")
      [] name = ACCEPT_ENCODING -> _Parser("_parse_accept_encoding", "NONE")
      [] name = ACCEPT_LANGUAGE -> _Parser("_parse_accept_language", "NONE")
      [] name = ACCEPT_PATCH -> _Parser("_parse_accept_encoding", "NONE")
      [] name = DATE -> _Parser("_parse_date", "NONE")
      [] name = EXPIRES -> _Parser("_parse_date", "NONE")
      [] name = IF_MODIFIED_SINCE -> _Parser("_parse_date", "NONE")
      [] name = LAST_MODIFIED -> _Parser("_parse_date", "NONE")
      [] name = CONTENT_ENCODING -> _Parser("_parse_content_encoding", "NONE")
      [] name = CONTENT_LENGTH -> _Parser("_parse_int", "NONE")
      [] name = CONTENT_SECURITY_POLICY ->
             _Parser("_parse_content_security_policy", "CONCAT")
      [] name = CONTENT_SECURITY_POLICY_REPORT_ONLY ->
             _Parser("_parse_content_security_policy", "CONCAT")
      [] name = COOKIE -> _Parser("_parse_cookie", "EXTEND")
      [] name = SET_COOKIE -> _Parser("decode_set_cookie", "APPEND")
      [] name = VARY -> _Parser("_parse_vary", "NONE")
      [] OTHER -> _DEFAULT_PARSER

(* parser.parse(value) *)
Parse(parser, value) ==
    CASE parser.parse = "_parse_accept" -> _parse_accept(value, FALSE)
      [] parser.parse = "_parse_comma_separated_list" ->
             Ok(_parse_comma_separated_list(value))
      [] parser.parse = "_parse_accept_charset" -> _parse_accept_charset(value, FALSE)
      [] parser.parse = "_parse_accept_encoding" -> _parse_accept_encoding(value, FALSE)
      [] parser.parse = "_parse_accept_language" -> _parse_accept_language(value, FALSE)
      [] parser.parse = "_parse_content_encoding" ->
             Ok(_parse_content_encoding(value, FALSE))
      [] parser.parse = "_parse_int" -> _parse_int(value)
      [] parser.parse = "_parse_date" -> _parse_date(value)
      [] parser.parse = "_parse_content_security_policy" ->
             Ok(_parse_content_security_policy(value))
      [] parser.parse = "_parse_cookie" -> Ok(_parse_cookie(value))
      [] parser.parse = "decode_set_cookie" -> decode_set_cookie(value)
      [] parser.parse = "_parse_vary" -> Ok(_parse_vary(value))
      [] OTHER -> Ok(_pass_through(value))

(* A variant whose NONE keeps the first occurrence *)
CollectMerge_none_keeping_first(collection, name, merge_type, result) ==
    LET old(empty) == IF DictHas(collection, name) THEN DictGet(collection, name) ELSE empty
    IN  CASE merge_type = "APPEND" -> DictSet(collection, name, Append(old(<<>>), result))
          [] merge_type = "CONCAT" -> DictSet(collection, name, old(<<>>) \o result)
          [] merge_type = "EXTEND" -> DictSet(collection, name, ExtendEach(result, old(<<>>)))
          [] OTHER -> IF DictHas(collection, name) THEN collection
                      ELSE DictSet(collection, name, result)

(* A variant whose CONCAT appends each line's list as one element *)
CollectMerge_concat_nesting(collection, name, merge_type, result) ==
    LET old(empty) == IF DictHas(collection, name) THEN DictGet(collection, name) ELSE empty
    IN  CASE merge_type = "APPEND" -> DictSet(collection, name, Append(old(<<>>), result))
          [] merge_type = "CONCAT" -> DictSet(collection, name, Append(old(<<>>), result))
          [] merge_type = "EXTEND" -> DictSet(collection, name, ExtendEach(result, old(<<>>)))
          [] OTHER -> DictSet(collection, name, result)

(* A variant whose APPEND keeps only the latest occurrence *)
CollectMerge_append_replacing(collection, name, merge_type, result) ==
    LET old(empty) == IF DictHas(collection, name) THEN DictGet(collection, name)
                      ELSE empty
    IN  CASE merge_type = "APPEND" -> DictSet(collection, name, <<result>>)
          [] merge_type = "CONCAT" -> DictSet(collection, name, old(<<>>) \o result)
          [] merge_type = "EXTEND" ->
                 DictSet(collection, name, ExtendEach(result, old(<<>>)))
          [] OTHER -> DictSet(collection, name, result)

(* A variant whose EXTEND keeps only the latest line's map *)
CollectMerge_extend_replacing(collection, name, merge_type, result) ==
    LET old(empty) == IF DictHas(collection, name) THEN DictGet(collection, name)
                      ELSE empty
    IN  CASE merge_type = "APPEND" -> DictSet(collection, name, Append(old(<<>>), result))
          [] merge_type = "CONCAT" -> DictSet(collection, name, old(<<>>) \o result)
          [] merge_type = "EXTEND" -> DictSet(collection, name, result)
          [] OTHER -> DictSet(collection, name, result)

(* One pass of collect's loop body after the parse: the merge *)
CollectMerge(collection, name, merge_type, result) ==
    LET old(empty) == IF DictHas(collection, name) THEN DictGet(collection, name)
                      ELSE empty
    IN  CASE merge_type = "APPEND" -> DictSet(collection, name, Append(old(<<>>), result))
          [] merge_type = "CONCAT" -> DictSet(collection, name, old(<<>>) \o result)
          [] merge_type = "EXTEND" ->
                 DictSet(collection, name, ExtendEach(result, old(<<>>)))
          [] OTHER -> DictSet(collection, name, result)

RECURSIVE CollectLoop(_, _)
CollectLoop(headers, collection) ==
    IF Len(headers) = 0 THEN Ok(collection)
    ELSE LET name == headers[1][1]
             parser == _PARSERS_get(name)
             result == Parse(parser, headers[1][2])
         IN  IF ~result.ok THEN result
             ELSE CollectLoop(Tail(headers),
                      CollectMerge(collection, name, parser.merge_type, result.val))

collect(headers) == CollectLoop(headers, <<>>)

(***************************************************************************)
(* collect called on header lists.  Each header line is kept with what it  *)
(* was written from: a Cookie line with its (name, value) pairs and        *)
(* optional trailing separator, a Set-Cookie line with the cookie record   *)
(* it states.                                                              *)
(***************************************************************************)
MaxHeaders == 3

ColLine(name, value, pairs, record) ==
    [name |-> name, value |-> value, pairs |-> pairs, record |-> record]

(* A Cookie line written from its pairs, joined by "; ", then a trailer *)
ColCookieLine(pairs, trailer) ==
    ColLine(COOKIE,
            Join([i \in 1..Len(pairs) |-> pairs[i][1] \o <<"=">> \o pairs[i][2]],
                 <<";", " ">>) \o trailer,
            pairs, <<>>)

ColCookieLines ==
    { ColCookieLine(<<<<<<"a">>, <<"1">>>>>>, <<>>),
      ColCookieLine(<<<<<<"a">>, <<"2">>>>, <<<<"b">>, <<"3">>>>>>, <<";">>),
      ColCookieLine(<<<<<<"b">>, <<"4">>>>, <<<<"a">>, <<"1">>>>>>, <<";", " ">>) }

ColSetCookieLines ==
    { ColLine(SET_COOKIE, <<"a", "=", "1">>, <<>>,
              <<<<k_name, Val("bytes", <<"a">>)>>, <<k_value, Val("bytes", <<"1">>)>>>>),
      ColLine(SET_COOKIE, <<"b", "=", "2", ";", " ", "P", "a", "t", "h", "=", "/", ";", " ", "S", "e", "c", "u", "r", "e">>, <<>>,
              <<<<k_name, Val("bytes", <<"b">>)>>, <<k_value, Val("bytes", <<"2">>)>>,
                <<<<"p", "a", "t", "h">>, Val("bytes", <<"/">>)>>,
                <<k_secure, Val("bool", TRUE)>>>>),
      ColLine(SET_COOKIE, <<"b", "a", "d">>, <<>>, <<>>) }

ColOtherLines ==
    { ColLine("x-request-id", <<"u">>, <<>>, <<>>),
      ColLine("x-request-id", <<"v">>, <<>>, <<>>),
      ColLine("x-trace", <<"t">>, <<>>, <<>>),
      ColLine(CONTENT_LENGTH, <<"1", "0">>, <<>>, 10),
      ColLine(ACCEPT_CH, <<"D", "P", "R", ",", " ", "W", "i", "d", "t", "h">>, <<>>,
              << <<"D", "P", "R">>, <<"W", "i", "d", "t", "h">> >>) }

ColLines == ColCookieLines \cup ColSetCookieLines \cup ColOtherLines

(* Lines of headers merged by NONE and by CONCAT; record is the value the
   line stands for: the integer, or the list of items in the order written *)
ColNoneLines ==
    { ColLine(CONTENT_LENGTH, <<"1", "0">>, <<>>, 10),
      ColLine(CONTENT_LENGTH, <<"2", "0">>, <<>>, 20),
      ColLine(VARY, <<"a", ",", " ", "b">>, <<>>, << <<"a">>, <<"b">> >>),
      ColLine(VARY, <<"c">>, <<>>, << <<"c">> >>) }

ColConcatLines ==
    { ColLine(ACCEPT_CH, <<"D", "P", "R", ",", " ", "W">>, <<>>,
              << <<"D", "P", "R">>, <<"W">> >>),
      ColLine(ACCEPT_CH, <<"V">>, <<>>, << <<"V">> >>),
      ColLine(CONTENT_SECURITY_POLICY,
              <<"d", " ", "s", ";", " ", "i", " ", "*", " ", "h", ";">>, <<>>,
              << << <<"d">>, << <<"s">> >> >>, << <<"i">>, << <<"*">>, <<"h">> >> >> >>),
      ColLine(CONTENT_SECURITY_POLICY, <<"f", " ", "n">>, <<>>,
              << << <<"f">>, << <<"n">> >> >> >>),
      ColLine(CONTENT_SECURITY_POLICY_REPORT_ONLY, <<"f", " ", "n">>, <<>>,
              << << <<"f">>, << <<"n">> >> >> >>),
      ColLine(CONTENT_SECURITY_POLICY_REPORT_ONLY, <<"u">>, <<>>, <<>>) }

ColMergeLines == ColNoneLines \cup ColConcatLines

ColHeader(line) == <<line.name, line.value>>

ColInit ==
    /\ \E lines \in SeqsBetween(ColLines, 0, MaxHeaders)
                        \cup SeqsBetween(ColMergeLines, 0, MaxHeaders) :
           col = [pc |-> "start", lines |-> lines,
                  headers |-> [i \in 1..Len(lines) |-> ColHeader(lines[i])],
                  out |-> None]
    /\ neg = Idle /\ sc = Idle /\ dt = Idle /\ ck = Idle /\ mw = Idle
    /\ cz = Idle /\ gt = Idle /\ up = Idle
    /\ st = Idle /\ cc = Idle /\ hd = Idle

Collect ==
    /\ col.pc = "start"
    /\ \E r \in {collect(col.headers)} :
           col' = [col EXCEPT !.pc = IF r.ok THEN "done" ELSE "raised", !.out = r]
    /\ UNCHANGED <<neg, sc, dt, ck, mw, cz, gt, up, st, cc, hd>>

ColNext == Collect

(***************************************************************************)
(* The remaining accessors the middleware uses (bareutils/header.py)       *)
(***************************************************************************)
content_encoding(headers, add_identity) ==
    LET value == find(CONTENT_ENCODING, headers, None)
    IN  IF value = None THEN None
        ELSE Some(_parse_content_encoding(value[1], add_identity))

content_length(headers) ==
    LET value == find(CONTENT_LENGTH, headers, None)
    IN  IF value = None THEN Ok(None)
        ELSE OkSome(_parse_int(value[1]))

vary(headers) ==
    LET value == find(VARY, headers, None)
    IN  IF value = None THEN None ELSE Some(_parse_vary(value[1]))

(* default if not value else _parse_date(value): an absent header and an   *)
(* empty value both give the default                                       *)
find_date(name, headers, default) ==
    LET value == find(name, headers, None)
    IN  IF value = None \/ value[1] = <<>> THEN Ok(default)
        ELSE OkSome(_parse_date(value[1]))

date(headers) == find_date(DATE, headers, None)

expires(headers) == find_date(EXPIRES, headers, None)

if_modified_since(headers) == find_date(IF_MODIFIED_SINCE, headers, None)

last_modified(headers) == find_date(LAST_MODIFIED, headers, None)

accept_patch(headers) ==
    LET value == find(ACCEPT_PATCH, headers, None)
    IN  IF value = None THEN Ok(None)
        ELSE OkSome(_parse_accept_patch(value[1]))

(***************************************************************************)
(* The named accessors beside the registry: a header list holding one      *)
(* header once is read through the header's accessor and then through      *)
(* collect.  A date header's value is kept with the fields it was written  *)
(* from.  Each result is kept with the Python type of the value, since     *)
(* values of different types are never equal.                              *)
(***************************************************************************)
HdDateNames == {DATE, EXPIRES, IF_MODIFIED_SINCE, LAST_MODIFIED}

HdDows == {1, 3}

HdNotADate == [form |-> "none", dd |-> 0, mon |-> 0, year |-> 0, hh |-> 0, ms |-> 0]

HdDateLines ==
    { [name |-> name,
       value |-> DtText(form, DAY_NAMES[dow], dd, mon, year, hh, ms),
       written |-> [form |-> form, dd |-> dd.num, mon |-> mon.num, year |-> year.num,
                    hh |-> hh.num, ms |-> ms.num]] :
          name \in HdDateNames, form \in {"modern"}, dow \in HdDows, dd \in DtDays,
          mon \in DtMonths, year \in DtYears4, hh \in DtHours, ms \in DtMinSecs }
    \cup
    { [name |-> name,
       value |-> DtText(form, DAY_NAMES[dow], dd, mon, year, hh, ms),
       written |-> [form |-> form, dd |-> dd.num, mon |-> mon.num, year |-> year.num,
                    hh |-> hh.num, ms |-> ms.num]] :
          name \in HdDateNames, form \in {"legacy"}, dow \in HdDows, dd \in DtDays,
          mon \in DtMonths, year \in DtYears2, hh \in DtHours, ms \in DtMinSecs }

HdOtherLines ==
    { [name |-> l[1], value |-> l[2], written |-> HdNotADate] : l \in
        { <<ACCEPT, <<"a", "/", "b", ";", "q", "=", "0", ".", "5", ",", "*", "/", "*">> >>,
          <<ACCEPT_CHARSET, <<"u", ";", "q", "=", "0", ".", "5", ",", " ", "*">> >>,
          <<ACCEPT_ENCODING, <<"g", "z", "i", "p", ",", " ", "b", "r", ";", "q", "=", "0", ".", "5">> >>,
          <<ACCEPT_ENCODING, <<"g", "z", "i", "p", ";", "x", "=", "1">> >>,
          <<ACCEPT_LANGUAGE, <<"e", "n", ",", " ", "f", "r", ";", "q", "=", "0", ".", "5">> >>,
          <<ACCEPT_PATCH, <<"a", "/", "b">> >>,
          <<ACCEPT_PATCH, <<"a", "/", "b", ";", "c", "h", "a", "r", "s", "e", "t", "=", "u">> >>,
          <<ACCEPT_PATCH, <<"a", "/", "b", ",", "c", "/", "d", ";", "c", "h", "a", "r", "s", "e", "t", "=", "u">> >>,
          <<ACCEPT_PATCH, <<"a", "/", "b", ";", "q", "=", "0", ".", "5">> >>,
          <<CONTENT_ENCODING, <<"g", "z", "i", "p", ",", " ", "b", "r">> >>,
          <<CONTENT_LENGTH, <<"1", "0">> >>,
          <<CONTENT_LENGTH, <<"x">> >>,
          <<VARY, <<"a", ",", " ", "b">> >>,
          <<VARY, <<"a", ",", "b">> >> } }

(* The Python type of what a parse function returns *)
HdTypeOf(parse) ==
    CASE parse = "_parse_accept" -> "dict of dict"
      [] parse \in {"_parse_accept_charset", "_parse_accept_encoding",
                    "_parse_accept_language"} -> "dict of float"
      [] parse = "_parse_accept_patch" -> "list of tuple"
      [] parse \in {"_parse_content_encoding", "_parse_vary"} -> "list of bytes"
      [] parse = "_parse_int" -> "int"
      [] parse = "_parse_date" -> "datetime"
      [] OTHER -> "bytes"

(* The parse function the accessor of a header calls *)
HdAccessorParse(name) ==
    CASE name = ACCEPT -> "_parse_accept"
      [] name = ACCEPT_CHARSET -> "_parse_accept_charset"
      [] name = ACCEPT_ENCODING -> "_parse_accept_encoding"
      [] name = ACCEPT_LANGUAGE -> "_parse_accept_language"
      [] name = ACCEPT_PATCH -> "_parse_accept_patch"
      [] name = CONTENT_ENCODING -> "_parse_content_encoding"
      [] name = CONTENT_LENGTH -> "_parse_int"
      [] name = VARY -> "_parse_vary"
      [] OTHER -> "_parse_date"

(* accessor(headers), each accessor with its optional arguments left out *)
HdAccessor(name, headers) ==
    CASE name = ACCEPT -> accept(headers, FALSE)
      [] name = ACCEPT_CHARSET -> accept_charset(headers, FALSE)
      [] name = ACCEPT_ENCODING -> accept_encoding(headers, FALSE)
      [] name = ACCEPT_LANGUAGE -> accept_language(headers, FALSE)
      [] name = ACCEPT_PATCH -> accept_patch(headers)
      [] name = CONTENT_ENCODING -> Ok(content_encoding(headers, FALSE))
      [] name = CONTENT_LENGTH -> content_length(headers)
      [] name = VARY -> Ok(vary(headers))
      [] name = DATE -> date(headers)
      [] name = EXPIRES -> expires(headers)
      [] name = IF_MODIFIED_SINCE -> if_modified_since(headers)
      [] OTHER -> last_modified(headers)

(* A call's outcome with the type of the value returned *)
HdTyped(type, r) ==
    IF r.ok THEN [ok |-> TRUE, type |-> type, val |-> r.val]
    ELSE [ok |-> FALSE, type |-> r.exc, val |-> <<>>]

(* collect(headers)[name] *)
HdCollected(name, r) == IF r.ok THEN Ok(Some(DictGet(r.val, name))) ELSE r

HdInit ==
    /\ \E line \in HdDateLines \cup HdOtherLines :
           hd = [pc |-> "start", name |-> line.name, value |-> line.value,
                 written |-> line.written,
                 headers |-> <<<<line.name, line.value>>>>,
                 accessed |-> None, collected |-> None]
    /\ neg = Idle /\ sc = Idle /\ dt = Idle /\ ck = Idle /\ col = Idle /\ mw = Idle
    /\ cz = Idle /\ gt = Idle /\ up = Idle /\ st = Idle /\ cc = Idle

(* accessed = accessor(headers) *)
CallAccessor ==
    /\ hd.pc = "start"
    /\ hd' = [hd EXCEPT !.pc = "accessed",
                        !.accessed = HdTyped(HdTypeOf(HdAccessorParse(hd.name)),
                                             HdAccessor(hd.name, hd.headers))]
    /\ UNCHANGED <<neg, sc, dt, ck, col, mw, cz, gt, up, st, cc>>

(* collected = collect(headers)[name] *)
CallCollect ==
    /\ hd.pc = "accessed"
    /\ hd' = [hd EXCEPT !.pc = "collected",
                        !.collected = HdTyped(HdTypeOf(_PARSERS_get(hd.name).parse),
                                              HdCollected(hd.name, collect(hd.headers)))]
    /\ UNCHANGED <<neg, sc, dt, ck, col, mw, cz, gt, up, st, cc>>

HdNext == CallAccessor \/ CallCollect

(***************************************************************************)
(* Compression middleware (bareutils/compression/middleware.py)            *)
(* self is [compressors, minimum_size]; compressors is the set of the      *)
(* encodings that have a factory.                                          *)
(***************************************************************************)
SeqToSet(xs) == {xs[i] : i \in 1..Len(xs)}

(* A variant that does not count the response's current encodings *)
is_acceptable_ignoring_current(self, accept_enc, content_enc) ==
    IF DictGet(accept_enc, b_identity) = 0
    THEN LET acceptable == {e \in DictKeys(accept_enc) : DictGet(accept_enc, e) # 0}
             available == self.compressors
         IN  IF Cardinality(acceptable \cap available) = 0 THEN FALSE ELSE TRUE
    ELSE TRUE

is_acceptable(self, accept_enc, content_enc) ==
    IF DictGet(accept_enc, b_identity) = 0
    THEN LET acceptable == {e \in DictKeys(accept_enc) : DictGet(accept_enc, e) # 0}
             current_encodings == {e \in SeqToSet(content_enc) : e # b_identity}
             available == self.compressors \cup current_encodings
         IN  IF Cardinality(acceptable \cap available) = 0 THEN FALSE ELSE TRUE
    ELSE TRUE

(* A variant without the test that a registered codec is acceptable *)
is_desirable_ignoring_available(self, accept_enc, content_enc, content_len) ==
    IF content_len # None /\ content_len[1] < self.minimum_size THEN FALSE
    ELSE LET acceptable == {e \in DictKeys(accept_enc) :
                                DictGet(accept_enc, e) # 0 /\ e # b_identity}
             current == {e \in SeqToSet(content_enc) : e # b_identity}
         IN  IF Cardinality(acceptable \cap current) > 0 THEN FALSE
             ELSE TRUE

is_desirable(self, accept_enc, content_enc, content_len) ==
    IF content_len # None /\ content_len[1] < self.minimum_size THEN FALSE
    ELSE LET acceptable == {e \in DictKeys(accept_enc) :
                                DictGet(accept_enc, e) # 0 /\ e # b_identity}
             current == {e \in SeqToSet(content_enc) : e # b_identity}
             available == self.compressors
         IN  IF Cardinality(acceptable \cap current) > 0 THEN FALSE
             ELSE IF Cardinality(acceptable \cap available) = 0 THEN FALSE
             ELSE TRUE

(* sorted(pairs, key=lambda x: x[1]): stable, ascending *)
RECURSIVE InsertByQuality(_, _)
InsertByQuality(sorted, x) ==
    IF Len(sorted) = 0 THEN <<x>>
    ELSE IF sorted[Len(sorted)][2] <= x[2] THEN Append(sorted, x)
    ELSE Append(InsertByQuality(SubSeq(sorted, 1, Len(sorted) - 1), x), sorted[Len(sorted)])

RECURSIVE SortedByQuality(_)
SortedByQuality(xs) ==
    IF Len(xs) = 0 THEN <<>>
    ELSE InsertByQuality(SortedByQuality(SubSeq(xs, 1, Len(xs) - 1)), xs[Len(xs)])

(* A variant that takes the last of the sorted encodings *)
select_encoding_taking_last(self, accept_enc) ==
    LET acceptable == SortedByQuality(
                          SelectSeq(accept_enc, LAMBDA x : x[2] # 0 /\ x[1] # b_identity))
        registered == SelectSeq(acceptable, LAMBDA x : x[1] \in self.compressors)
    IN  IF Len(registered) = 0 THEN Raise("StopIteration")
        ELSE Ok(registered[Len(registered)][1])

(* next(...) on an empty generator raises StopIteration *)
select_encoding(self, accept_enc) ==
    LET acceptable == SortedByQuality(
                          SelectSeq(accept_enc, LAMBDA x : x[2] # 0 /\ x[1] # b_identity))
        registered == SelectSeq(acceptable, LAMBDA x : x[1] \in self.compressors)
    IN  IF Len(registered) = 0 THEN Raise("StopIteration") ELSE Ok(registered[1][1])

(* What __call__ returns: the 4-tuple, or the bare status it gives for 406 *)
Response(status, headers, body, pushes) ==
    [kind |-> "response", status |-> status, headers |-> headers, body |-> body,
     pushes |-> pushes]

BareStatus(status) == [kind |-> "status", status |-> status]

(* compression_writer_adapter(body, compressor_cls()) *)
Compressed(body, encoding) == [adapter |-> "compression_writer_adapter",
                               writer |-> body, compressobj |-> encoding]

(* `x or default`: None and the empty container are both falsy *)
OrDefault(opt, default) == IF opt = None \/ opt[1] = <<>> THEN default ELSE opt[1]

(* __call__ from the headers' rewrite on; a StopIteration that escapes a   *)
(* coroutine surfaces as RuntimeError                                      *)
CompressResponse(self, r, vary0, encoding) ==
    IF ~encoding.ok THEN Raise("RuntimeError")
    ELSE Ok(Response(
             r.status,
             SelectSeq(r.headers,
                 LAMBDA h : h[1] \notin {CONTENT_LENGTH, CONTENT_ENCODING, VARY})
                 \o <<<<CONTENT_ENCODING, encoding.val>>,
                      <<VARY, Join(IF b_accept_encoding \notin SeqToSet(vary0)
                                   THEN Append(vary0, b_accept_encoding) ELSE vary0,
                                   b_comma_space)>>>>,
             Compressed(r.body, encoding.val),
             r.pushes))

(* __call__ from the is_desirable test on *)
WhenDesirable(self, r, accept_enc, content_enc, content_len) ==
    IF ~content_len.ok THEN content_len
    ELSE IF ~is_desirable(self, accept_enc, content_enc, content_len.val) THEN Ok(r)
    ELSE CompressResponse(self, r, OrDefault(vary(r.headers), <<>>),
                          select_encoding(self, accept_enc))

(* __call__ from the is_acceptable test on *)
WhenAcceptable(self, r, accept_enc, content_enc) ==
    IF ~is_acceptable(self, accept_enc, content_enc) THEN Ok(BareStatus(406))
    ELSE WhenDesirable(self, r, accept_enc, content_enc, content_length(r.headers))

(* __call__ once the request's Accept-Encoding has been read *)
WhenParsed(self, r, parsed) ==
    IF ~parsed.ok THEN parsed
    ELSE WhenAcceptable(self, r, OrDefault(parsed.val, <<<<b_identity, 1000>>>>),
                        OrDefault(content_encoding(r.headers, FALSE), <<b_identity>>))

(* A variant whose status test lets 300 through to the gates *)
MiddlewareCall_gating_300(self, scope_headers, r) ==
    IF r.status < 200 \/ r.status > 300 THEN Ok(r)
    ELSE WhenParsed(self, r, accept_encoding(scope_headers, TRUE))

(* __call__ after `await handler(...)` has returned the response r *)
MiddlewareCall(self, scope_headers, r) ==
    IF r.status < 200 \/ r.status >= 300 THEN Ok(r)
    ELSE WhenParsed(self, r, accept_encoding(scope_headers, TRUE))

(***************************************************************************)
(* The middleware, constructed and then called once around a handler       *)
(***************************************************************************)
DefaultMinimumSize == 512

MwCompressorSets == {{b_gzip, b_deflate}, {b_gzip}, {}}

MwTokens == {b_gzip, b_deflate, b_identity, b_br}

MwQualifiers ==
    { NoQualifier,
      [name |-> b_q, text |-> <<"0">>, milli |-> 0],
      [name |-> b_q, text |-> <<"0", ".", "5">>, milli |-> 500] }

MwItems == [tok : MwTokens, qual : MwQualifiers]

(* The request's Accept-Encoding: absent, or one or two items *)
MwAcceptEncodings ==
    {<<>>} \cup {<<a>> : a \in MwItems} \cup {<<a, b>> : a \in MwItems, b \in MwItems}

MwStatuses == {199, 200, 299, 300}

MwContentEncodings == {None, Some(b_gzip), Some(b_br), Some(b_identity)}

MwContentLengths == {None, Some(<<"1", "0", "0">>), Some(<<"5", "1", "2">>)}

(* The response's Vary lines: none, one, or two *)
MwVaries ==
    {None, <<<<"u", "s", "e", "r", "-", "a", "g", "e", "n", "t">>, <<"c", "o", "o", "k", "i", "e">>>>,
     Some(<<"a", "c", "c", "e", "p", "t", "-", "e", "n", "c", "o", "d", "i", "n", "g">>),
     Some(<<"u", "s", "e", "r", "-", "a", "g", "e", "n", "t">>),
     Some(<<"u", "s", "e", "r", "-", "a", "g", "e", "n", "t", ",", " ", "a", "c", "c", "e", "p", "t", "-", "e", "n", "c", "o", "d", "i", "n", "g">>),
     Some(<<"a", "c", "c", "e", "p", "t", "-", "e", "n", "c", "o", "d", "i", "n", "g", ",", "u", "s", "e", "r", "-", "a", "g", "e", "n", "t">>)}

(* The handler's body: content that no adapter of the middleware wraps *)
MwBody == [adapter |-> "handler", writer |-> "body", compressobj |-> <<>>]

OptHeader(name, opt) == IF opt = None THEN <<>> ELSE <<<<name, opt[1]>>>>

MwResponseHeaders(cl, ce, v) ==
    <<<<"content-type", <<"t", "e", "x", "t", "/", "p", "l", "a", "i", "n">>>>>>
        \o OptHeader(CONTENT_LENGTH, cl) \o OptHeader(CONTENT_ENCODING, ce)
        \o OptHeader(VARY, v) \o <<<<"server", <<"s">>>>>>
        \o (IF Len(v) > 1 THEN <<<<VARY, v[2]>>>> ELSE <<>>)

MwInit ==
    /\ \E compressors \in MwCompressorSets :
           mw = [pc |-> "ready",
                 self |-> [compressors |-> compressors, minimum_size |-> DefaultMinimumSize],
                 items |-> <<>>, scope_headers |-> <<>>, response |-> None, out |-> None]
    /\ neg = Idle /\ sc = Idle /\ dt = Idle /\ ck = Idle /\ col = Idle
    /\ cz = Idle /\ gt = Idle /\ up = Idle
    /\ st = Idle /\ cc = Idle /\ hd = Idle

(* One request: the handler answers and __call__ returns *)
Call ==
    /\ mw.pc = "ready"
    /\ \E items \in MwAcceptEncodings, status \in MwStatuses, cl \in MwContentLengths,
          ce \in MwContentEncodings, v \in MwVaries :
           LET scope_headers == <<<<"host", <<"h">>>>>>
                                    \o (IF Len(items) = 0 THEN <<>>
                                        ELSE <<<<ACCEPT_ENCODING, RenderItems(items)>>>>)
               r == Response(status, MwResponseHeaders(cl, ce, v), MwBody, <<>>)
           IN  mw' = [mw EXCEPT !.pc = "returned", !.items = items,
                                !.scope_headers = scope_headers, !.response = r,
                                !.out = MiddlewareCall(mw.self, scope_headers, r)]
    /\ UNCHANGED <<neg, sc, dt, ck, col, cz, gt, up, st, cc, hd>>

MwNext == Call

(***************************************************************************)
(* The middleware's gates called with an accept_encoding mapping given     *)
(* directly: is_acceptable, select_encoding, and __call__ from the         *)
(* is_acceptable test on                                                   *)
(***************************************************************************)
MaxEncodings == 2

GtQualities == {0, 500, 1000}

(* The keys of a mapping: distinct, b'identity' among them, as __call__    *)
(* passes them (add_identity=True)                                         *)
GtKeyLists ==
    {ks \in SeqsBetween(MwTokens, 1, MaxEncodings + 1) :
        /\ \A i, j \in 1..Len(ks) : ks[i] = ks[j] => i = j
        /\ \E i \in 1..Len(ks) : ks[i] = b_identity}

GtAcceptEncodings ==
    UNION {{[i \in 1..Len(ks) |-> <<ks[i], qs[i]>>] : qs \in [1..Len(ks) -> GtQualities]}
              : ks \in GtKeyLists}

GtContentEncodings == {<<b_identity>>, <<b_gzip>>, <<b_br>>, <<b_br, b_identity>>}

(* The handler's 200 response carrying the content-encoding *)
GtResponse(content_enc) ==
    Response(200, <<<<CONTENT_ENCODING, Join(content_enc, b_comma_space)>>>>, MwBody, <<>>)

GtInit ==
    /\ \E compressors \in MwCompressorSets, accept_enc \in GtAcceptEncodings,
          content_enc \in GtContentEncodings :
           gt = [pc |-> "ready",
                 self |-> [compressors |-> compressors, minimum_size |-> DefaultMinimumSize],
                 accept_encoding |-> accept_enc, content_encoding |-> content_enc,
                 op |-> "", out |-> None]
    /\ neg = Idle /\ sc = Idle /\ dt = Idle /\ ck = Idle /\ col = Idle /\ mw = Idle
    /\ cz = Idle /\ up = Idle
    /\ st = Idle /\ cc = Idle /\ hd = Idle

IsAcceptable ==
    /\ gt.pc = "ready"
    /\ gt' = [gt EXCEPT !.pc = "returned", !.op = "is_acceptable",
                        !.out = is_acceptable(gt.self, gt.accept_encoding,
                                              gt.content_encoding)]
    /\ UNCHANGED <<neg, sc, dt, ck, col, mw, cz, up, st, cc, hd>>

SelectEncoding ==
    /\ gt.pc = "ready"
    /\ gt' = [gt EXCEPT !.pc = "returned", !.op = "select_encoding",
                        !.out = select_encoding(gt.self, gt.accept_encoding)]
    /\ UNCHANGED <<neg, sc, dt, ck, col, mw, cz, up, st, cc, hd>>

(* __call__ from `if not self.is_acceptable(...)` on *)
CallFromAcceptable ==
    /\ gt.pc = "ready"
    /\ gt' = [gt EXCEPT !.pc = "returned", !.op = "__call__",
                        !.out = WhenAcceptable(gt.self, GtResponse(gt.content_encoding),
                                               gt.accept_encoding, gt.content_encoding)]
    /\ UNCHANGED <<neg, sc, dt, ck, col, mw, cz, up, st, cc, hd>>

GtNext == IsAcceptable \/ SelectEncoding \/ CallFromAcceptable

(***************************************************************************)
(* upsert (bareutils/header.py): a header list that callers upsert into    *)
(***************************************************************************)
(* A variant that appends without looking for the name *)
upsert_appending(name, value, headers) == Append(headers, <<name, value>>)

(* The loop of upsert from position i on: overwrite the first item named   *)
(* name and return, else append                                            *)
RECURSIVE UpsertFrom(_, _, _, _)
UpsertFrom(name, value, headers, i) ==
    IF i > Len(headers) THEN Append(headers, <<name, value>>)
    ELSE IF headers[i][1] = name THEN [headers EXCEPT ![i] = <<name, value>>]
    ELSE UpsertFrom(name, value, headers, i + 1)

(* The list as upsert(name, value, headers) leaves it *)
upsert(name, value, headers) == UpsertFrom(name, value, headers, 1)

MaxUpHeaders == 2
MaxUpserts == 2
UpNames == {"content-type", "vary", "cookie"}
UpValues == {<<"1">>, <<"2">>}
UpItems == {<<n, v>> : n \in UpNames, v \in UpValues}

(* Any header list, with or without repeated names *)
UpInit ==
    /\ \E headers \in SeqsBetween(UpItems, 0, MaxUpHeaders) :
           up = [pc |-> "ready", initial |-> headers, headers |-> headers,
                 before |-> headers, name |-> "", value |-> <<>>, calls |-> 0]
    /\ neg = Idle /\ sc = Idle /\ dt = Idle /\ ck = Idle /\ col = Idle /\ mw = Idle
    /\ cz = Idle /\ gt = Idle
    /\ st = Idle /\ cc = Idle /\ hd = Idle

(* One call upsert(name, value, headers) on the list *)
Upsert ==
    /\ up.pc = "ready" /\ up.calls < MaxUpserts
    /\ \E name \in UpNames, value \in UpValues :
           up' = [up EXCEPT !.before = up.headers, !.name = name, !.value = value,
                            !.headers = upsert(name, value, up.headers),
                            !.calls = @ + 1]
    /\ UNCHANGED <<neg, sc, dt, ck, col, mw, cz, gt, st, cc, hd>>

UpNext == Upsert

(***************************************************************************)
(* Streaming: bytes_writer, bytes_reader and the compression adapters      *)
(***************************************************************************)
(* A slice index as Python reads it for a sequence of n items: a negative  *)
(* index counts from the end, and the result is kept within 0..n           *)
SliceIndex(i, n) ==
    IF i < 0 THEN (IF i + n < 0 THEN 0 ELSE i + n) ELSE IF i > n THEN n ELSE i

(* buf[start:end] *)
Slice(buf, start, end) ==
    SubSeq(buf, SliceIndex(start, Len(buf)) + 1, SliceIndex(end, Len(buf)))

(* The generator bytes_writer(buf, chunk_size), before its first step *)
bytes_writer(buf, chunk_size) ==
    [buf |-> buf, chunk_size |-> chunk_size, start |-> 0, end |-> chunk_size,
     yields |-> 0]

(* A variant whose loop stops one chunk early *)
BytesWriterHasNext_stopping_early(w) ==
    IF w.chunk_size = -1 THEN w.yields = 0 ELSE w.end < Len(w.buf)

(* Whether the generator yields again: once when chunk_size is -1,         *)
(* otherwise while start < len(buf)                                        *)
BytesWriterHasNext(w) ==
    IF w.chunk_size = -1 THEN w.yields = 0 ELSE w.start < Len(w.buf)

BytesWriterValue(w) ==
    IF w.chunk_size = -1 THEN w.buf ELSE Slice(w.buf, w.start, w.end)

(* A variant that steps one byte too far *)
BytesWriterAdvance_skipping(w) ==
    IF w.chunk_size = -1 THEN [w EXCEPT !.yields = @ + 1]
    ELSE [w EXCEPT !.start = w.end + 1, !.end = w.end + 1 + w.chunk_size]

(* Past the yield: the single-chunk branch has yielded, or                  *)
(* start, end = end, end + chunk_size                                      *)
BytesWriterAdvance(w) ==
    IF w.chunk_size = -1 THEN [w EXCEPT !.yields = @ + 1]
    ELSE [w EXCEPT !.start = w.end, !.end = w.end + w.chunk_size]

(* A variant of bytes_reader that keeps only the latest value *)
bytes_reader_add_replacing(buf, value) == value

(* bytes_reader: buf += value *)
bytes_reader_add(buf, value) == buf \o value

(* The compressed stream, as symbols: a gzip stream is a header, the       *)
(* deflated data, an end-of-block mark and a trailer holding the size; a   *)
(* raw deflate stream is the deflated data and the end-of-block mark.      *)
Sym(k, v, n) == [k |-> k, v |-> v, n |-> n]

StreamHeader(codec) == IF codec = "gzip" THEN <<Sym("hdr", <<>>, 0)>> ELSE <<>>

StreamTrailer(codec, size) == IF codec = "gzip" THEN <<Sym("trl", <<>>, size)>> ELSE <<>>

Deflated(buf) == [i \in 1..Len(buf) |-> Sym("dat", <<buf[i]>>, 0)]

Compressobj(codec) == [codec |-> codec, begun |-> FALSE, pending |-> <<>>, size |-> 0]

make_gzip_compressobj == Compressobj("gzip")

make_deflate_compressobj == Compressobj("deflate")

(* What the compressor holds once buf is fed: what it held, the header if  *)
(* nothing was fed before, and the deflated buf                            *)
CompressorFeed(c, buf) ==
    c.pending \o (IF c.begun THEN <<>> ELSE StreamHeader(c.codec)) \o Deflated(buf)

(* compressobj.compress(buf): returns the first k symbols it holds and     *)
(* keeps the rest; how much it returns is up to the compressor             *)
Compressor_compress(c, buf, k) ==
    [out |-> SubSeq(CompressorFeed(c, buf), 1, k),
     obj |-> [c EXCEPT !.begun = TRUE,
                       !.pending = SubSeq(CompressorFeed(c, buf), k + 1,
                                          Len(CompressorFeed(c, buf))),
                       !.size = @ + Len(buf)]]

(* compressobj.flush(): everything held, then the end of the stream *)
Compressor_flush(c) ==
    [out |-> CompressorFeed(c, <<>>) \o <<Sym("eob", <<>>, 0)>>
                 \o StreamTrailer(c.codec, c.size),
     obj |-> [c EXCEPT !.begun = TRUE, !.pending = <<>>]]

Decompressobj(codec) ==
    [codec |-> codec, phase |-> IF codec = "gzip" THEN "header" ELSE "body",
     size |-> 0]

make_gzip_decompressobj == Decompressobj("gzip")

make_deflate_decompressobj == Decompressobj("deflate")

(* decompressobj.decompress(item), symbol by symbol; out is what has been  *)
(* decoded so far.  Symbols after the end of the stream are unused data.   *)
RECURSIVE Decompressor_decompress(_, _, _)
Decompressor_decompress(d, item, out) ==
    IF Len(item) = 0 THEN Ok([obj |-> d, out |-> out])
    ELSE CASE d.phase = "eof" -> Ok([obj |-> d, out |-> out])
           [] d.phase = "header" /\ item[1].k = "hdr" ->
                  Decompressor_decompress([d EXCEPT !.phase = "body"], Tail(item), out)
           [] d.phase = "body" /\ item[1].k = "dat" ->
                  Decompressor_decompress([d EXCEPT !.size = @ + 1], Tail(item),
                                          out \o item[1].v)
           [] d.phase = "body" /\ item[1].k = "eob" ->
                  Decompressor_decompress(
                      [d EXCEPT !.phase = IF d.codec = "gzip" THEN "trailer" ELSE "eof"],
                      Tail(item), out)
           [] d.phase = "trailer" /\ item[1].k = "trl" /\ item[1].n = d.size ->
                  Decompressor_decompress([d EXCEPT !.phase = "eof"], Tail(item), out)
           [] OTHER -> Raise("zlib.error")

(* decompressobj.flush(): decompress has returned all it decoded *)
Decompressor_flush(d) == <<>>

(* --- driver: compression_reader(compression_writer(buf, c, n), d) ------ *)
MaxBuf == 3
MaxChunk == 2
CzBytes == {"a", "b"}
CzBufs == SeqsBetween(CzBytes, 0, MaxBuf)
CzChunkSizes == {-1} \cup (1..MaxChunk)
CzCodecs == {"gzip", "deflate"}

CzCall(op, arg, out) == [op |-> op, arg |-> arg, out |-> out]

(* compression_writer(buf, compressobj, chunk_size) handed to              *)
(* compression_reader(source, decompressobj), nothing pulled yet           *)
CzInit ==
    /\ \E buf \in CzBufs, chunk_size \in CzChunkSizes, codec \in CzCodecs :
           cz = [pc |-> "streaming", buf |-> buf, chunk_size |-> chunk_size,
                 codec |-> codec,
                 writer |-> bytes_writer(buf, chunk_size),
                 compressobj |-> IF codec = "gzip" THEN make_gzip_compressobj
                                 ELSE make_deflate_compressobj,
                 calls |-> <<>>, items |-> <<>>, exhausted |-> FALSE,
                 decompressobj |-> IF codec = "gzip" THEN make_gzip_decompressobj
                                   ELSE make_deflate_decompressobj,
                 taken |-> 0, body |-> <<>>, out |-> None]
    /\ neg = Idle /\ sc = Idle /\ dt = Idle /\ ck = Idle /\ col = Idle /\ mw = Idle
    /\ gt = Idle /\ up = Idle
    /\ st = Idle /\ cc = Idle /\ hd = Idle

(* compression_writer_adapter: `async for buf in writer:` gets a chunk,    *)
(* `yield compressobj.compress(buf)`                                       *)
CompressChunk ==
    /\ cz.pc = "streaming" /\ ~cz.exhausted /\ cz.taken = Len(cz.items)
    /\ BytesWriterHasNext(cz.writer)
    /\ \E k \in 0..Len(CompressorFeed(cz.compressobj, BytesWriterValue(cz.writer))) :
       \E r \in {Compressor_compress(cz.compressobj, BytesWriterValue(cz.writer), k)} :
           cz' = [cz EXCEPT !.writer = BytesWriterAdvance(cz.writer),
                            !.compressobj = r.obj,
                            !.calls = Append(@, CzCall("compress",
                                                       BytesWriterValue(cz.writer), r.out)),
                            !.items = Append(@, r.out)]
    /\ UNCHANGED <<neg, sc, dt, ck, col, mw, gt, up, st, cc, hd>>

(* compression_writer_adapter: the writer is exhausted,                    *)
(* `yield compressobj.flush()`, then the adapter ends                      *)
CompressFlush ==
    /\ cz.pc = "streaming" /\ ~cz.exhausted /\ cz.taken = Len(cz.items)
    /\ ~BytesWriterHasNext(cz.writer)
    /\ \E r \in {Compressor_flush(cz.compressobj)} :
           cz' = [cz EXCEPT !.compressobj = r.obj,
                            !.calls = Append(@, CzCall("flush", <<>>, r.out)),
                            !.items = Append(@, r.out),
                            !.exhausted = TRUE]
    /\ UNCHANGED <<neg, sc, dt, ck, col, mw, gt, up, st, cc, hd>>

(* compression_reader_adapter: `yield decompressobj.decompress(item)`,     *)
(* which bytes_reader adds to its buffer                                   *)
DecompressItem ==
    /\ cz.pc = "streaming" /\ cz.taken < Len(cz.items)
    /\ \E r \in {Decompressor_decompress(cz.decompressobj, cz.items[cz.taken + 1], <<>>)} :
           cz' = IF r.ok
                 THEN [cz EXCEPT !.decompressobj = r.val.obj,
                                 !.taken = @ + 1,
                                 !.body = bytes_reader_add(@, r.val.out)]
                 ELSE [cz EXCEPT !.pc = "raised", !.out = r]
    /\ UNCHANGED <<neg, sc, dt, ck, col, mw, gt, up, st, cc, hd>>

(* compression_reader_adapter: the source has ended,                       *)
(* `yield decompressobj.flush()`; bytes_reader returns its buffer          *)
DecompressFlush ==
    /\ cz.pc = "streaming" /\ cz.exhausted /\ cz.taken = Len(cz.items)
    /\ cz' = [cz EXCEPT !.pc = "returned",
                        !.body = bytes_reader_add(@, Decompressor_flush(cz.decompressobj)),
                        !.out = Ok(bytes_reader_add(cz.body,
                                                    Decompressor_flush(cz.decompressobj)))]
    /\ UNCHANGED <<neg, sc, dt, ck, col, mw, gt, up, st, cc, hd>>

CzNext == CompressChunk \/ CompressFlush \/ DecompressItem \/ DecompressFlush

(* --- driver: bytes_reader(bytes_writer(buf, chunk_size)) --------------- *)
StChunkSizes == (0 - 1)..MaxChunk

(* The chunks are recorded up to this many; pulls counts them modulo it *)
MaxPulls == MaxBuf + 2

StInit ==
    /\ \E buf \in CzBufs, chunk_size \in StChunkSizes :
           st = [pc |-> "reading", buf |-> buf, chunk_size |-> chunk_size,
                 writer |-> bytes_writer(buf, chunk_size),
                 pulls |-> 0, chunks |-> <<>>, body |-> <<>>, out |-> None]
    /\ neg = Idle /\ sc = Idle /\ dt = Idle /\ ck = Idle /\ col = Idle /\ mw = Idle
    /\ cz = Idle /\ gt = Idle /\ up = Idle /\ cc = Idle /\ hd = Idle

(* bytes_reader: `async for value in body:` gets a chunk, buf += value *)
ReadChunk ==
    /\ st.pc = "reading"
    /\ BytesWriterHasNext(st.writer)
    /\ st' = [st EXCEPT !.writer = BytesWriterAdvance(st.writer),
                        !.pulls = (@ + 1) % MaxPulls,
                        !.chunks = IF Len(@) < MaxPulls
                                   THEN Append(@, BytesWriterValue(st.writer)) ELSE @,
                        !.body = bytes_reader_add(@, BytesWriterValue(st.writer))]
    /\ UNCHANGED <<neg, sc, dt, ck, col, mw, cz, gt, up, cc, hd>>

(* bytes_reader: the writer has ended, return buf *)
ReadEnd ==
    /\ st.pc = "reading"
    /\ ~BytesWriterHasNext(st.writer)
    /\ st' = [st EXCEPT !.pc = "returned", !.out = Ok(st.body)]
    /\ UNCHANGED <<neg, sc, dt, ck, col, mw, cz, gt, up, cc, hd>>

StNext == ReadChunk \/ ReadEnd

(***************************************************************************)
(* Specifications: one component runs, the others stay idle                *)
(***************************************************************************)
(***************************************************************************)
(* One CompressionMiddleware serving several requests whose body streams   *)
(* are read in any interleaving.  A compressor object is known by the      *)
(* number of the factory call that made it; calls[k] lists the compress    *)
(* and flush calls object k has received, each with the stream it came     *)
(* from.                                                                   *)
(***************************************************************************)
MaxCalls == 2

MaxBodyChunks == 2

CcAcceptEncodings == {None, Some(b_gzip), Some(b_deflate)}

(* A variant in which the mapping holds one compressor per encoding rather *)
(* than a factory: every call gives the object made first                 *)
FactoryCall_sharing(made) == 1

(* compressor_cls(): zlib.compressobj(...) makes a new object on each call *)
FactoryCall(made) == made + 1

CcIsCompressed(out) ==
    /\ out.ok
    /\ out.val.kind = "response"
    /\ out.val.body.adapter = "compression_writer_adapter"

(* The stream __call__ hands back for a handler body of n chunks *)
CcStream(out, made, n) ==
    IF CcIsCompressed(out)
    THEN [compressed |-> TRUE, encoding |-> out.val.body.compressobj,
          compressobj |-> FactoryCall(made), pending |-> n, phase |-> "open"]
    ELSE [compressed |-> FALSE, encoding |-> <<>>,
          compressobj |-> 0, pending |-> n, phase |-> "open"]

CcInit ==
    /\ cc = [pc |-> "serving",
             self |-> [compressors |-> {b_gzip, b_deflate},
                       minimum_size |-> DefaultMinimumSize],
             made |-> 0, streams |-> <<>>, calls |-> <<>>]
    /\ neg = Idle /\ sc = Idle /\ dt = Idle /\ ck = Idle /\ col = Idle /\ mw = Idle
    /\ cz = Idle /\ gt = Idle /\ up = Idle /\ st = Idle /\ hd = Idle

(* One more request: the handler answers with a body of n chunks and       *)
(* __call__ returns, having called the factory if it compresses           *)
CcCall ==
    /\ cc.pc = "serving"
    /\ Len(cc.streams) < MaxCalls
    /\ \E ae \in CcAcceptEncodings, n \in 0..MaxBodyChunks :
           \E out \in {MiddlewareCall(cc.self,
                                      OptHeader(ACCEPT_ENCODING, ae),
                                      Response(200, <<<<"server", <<"s">>>>>>, MwBody, <<>>))} :
               cc' = [cc EXCEPT !.made = IF CcIsCompressed(out) THEN cc.made + 1 ELSE cc.made,
                                !.calls = IF CcIsCompressed(out) THEN Append(cc.calls, <<>>)
                                          ELSE cc.calls,
                                !.streams = Append(cc.streams, CcStream(out, cc.made, n))]
    /\ UNCHANGED <<neg, sc, dt, ck, col, mw, cz, gt, up, st, hd>>

(* compressobj.compress(buf) or compressobj.flush(), called by stream i *)
CcCalled(i, op) ==
    [cc.calls EXCEPT ![cc.streams[i].compressobj] = Append(@, [stream |-> i, op |-> op])]

(* async for buf in writer: yield compressobj.compress(buf) *)
CcPullCompress ==
    /\ cc.pc = "serving"
    /\ \E i \in 1..Len(cc.streams) :
           /\ cc.streams[i].compressed
           /\ cc.streams[i].phase = "open"
           /\ cc.streams[i].pending > 0
           /\ cc' = [cc EXCEPT !.streams[i].pending = cc.streams[i].pending - 1,
                               !.calls = CcCalled(i, "compress")]
    /\ UNCHANGED <<neg, sc, dt, ck, col, mw, cz, gt, up, st, hd>>

(* the writer is exhausted: yield compressobj.flush() *)
CcPullFlush ==
    /\ cc.pc = "serving"
    /\ \E i \in 1..Len(cc.streams) :
           /\ cc.streams[i].compressed
           /\ cc.streams[i].phase = "open"
           /\ cc.streams[i].pending = 0
           /\ cc' = [cc EXCEPT !.streams[i].phase = "flushed",
                               !.calls = CcCalled(i, "flush")]
    /\ UNCHANGED <<neg, sc, dt, ck, col, mw, cz, gt, up, st, hd>>

(* the adapter returns after the flush: the stream has ended *)
CcPullEnd ==
    /\ cc.pc = "serving"
    /\ \E i \in 1..Len(cc.streams) :
           /\ cc.streams[i].compressed
           /\ cc.streams[i].phase = "flushed"
           /\ cc' = [cc EXCEPT !.streams[i].phase = "ended"]
    /\ UNCHANGED <<neg, sc, dt, ck, col, mw, cz, gt, up, st, hd>>

(* a body returned as the handler gave it is read without any compressor *)
CcPullPlain ==
    /\ cc.pc = "serving"
    /\ \E i \in 1..Len(cc.streams) :
           /\ ~cc.streams[i].compressed
           /\ cc.streams[i].phase = "open"
           /\ cc' = [cc EXCEPT !.streams[i].pending =
                                   IF cc.streams[i].pending > 0
                                   THEN cc.streams[i].pending - 1 ELSE 0,
                               !.streams[i].phase =
                                   IF cc.streams[i].pending > 0 THEN "open" ELSE "ended"]
    /\ UNCHANGED <<neg, sc, dt, ck, col, mw, cz, gt, up, st, hd>>

CcNext == CcCall \/ CcPullCompress \/ CcPullFlush \/ CcPullEnd \/ CcPullPlain

SpecConcurrent ==
    CcInit /\ [][CcNext]_vars

SpecHeaders ==
    HdInit /\ [][HdNext]_vars

SpecNeg ==
    /\ NegInit
    /\ [][NegNext]_vars

SpecDate ==
    /\ DtInit
    /\ [][DtNext]_vars

SpecSetCookie ==
    /\ ScInit
    /\ [][ScNext]_vars

SpecCookies ==
    /\ CkInit
    /\ [][CkNext]_vars

SpecCollect ==
    /\ ColInit
    /\ [][ColNext]_vars

SpecMiddleware ==
    /\ MwInit
    /\ [][MwNext]_vars

SpecStreaming ==
    /\ StInit
    /\ [][StNext]_vars

(* The reader keeps pulling for as long as it can *)
SpecStreamingLive ==
    /\ StInit
    /\ [][StNext]_vars
    /\ WF_vars(StNext)

SpecUpsert ==
    /\ UpInit
    /\ [][UpNext]_vars

SpecGates ==
    /\ GtInit
    /\ [][GtNext]_vars

SpecCompression ==
    /\ CzInit
    /\ [][CzNext]_vars

(***************************************************************************)
(* Properties of content negotiation                                       *)
(***************************************************************************)
NegDone == neg.pc = "done" /\ Len(neg.items) > 0

(* The items all follow the grammar token[;q=v] *)
NegWellFormed == \A i \in 1..Len(neg.items) : neg.items[i].qual.name \in {<<>>, b_q}

NegListed(tok) == \E i \in 1..Len(neg.items) : neg.items[i].tok = tok

(* The token a parser's flag injects *)
NegImplicit == IF neg.parser = ACCEPT_ENCODING THEN b_identity ELSE b_star

(* The quality the header text gives a token: that of its last occurrence *)
NegWritten(tok) ==
    LET last == CHOOSE i \in 1..Len(neg.items) :
                    /\ neg.items[i].tok = tok
                    /\ \A j \in (i + 1)..Len(neg.items) : neg.items[j].tok # tok
    IN  neg.items[last].qual.milli

(* C3: accept_encoding on a well-formed value returns a map whose keys are *)
(* exactly the listed tokens, each with its explicit quality (0 included), *)
(* or 1.0 when it has no q.                                                *)
C3_QualityMapAsWritten ==
    (NegDone /\ neg.parser = ACCEPT_ENCODING /\ ~neg.flag /\ NegWellFormed) =>
        /\ neg.out.ok
        /\ neg.out.val # None
        /\ DictKeys(neg.out.val[1]) = {neg.items[i].tok : i \in 1..Len(neg.items)}
        /\ \A tok \in DictKeys(neg.out.val[1]) :
               DictGet(neg.out.val[1], tok) = NegWritten(tok)

(* C4: each of accept, accept_charset, accept_language and accept_encoding *)
(* fails when a token carries a qualifier whose name is not q.             *)
C4_NonQQualifierFails ==
    (NegDone /\ ~NegWellFormed) => ~neg.out.ok

(* The same call made without the flag *)
NegFlagless ==
    CASE neg.parser = ACCEPT_CHARSET -> accept_charset(neg.headers, FALSE)
      [] neg.parser = ACCEPT_ENCODING -> accept_encoding(neg.headers, FALSE)
      [] neg.parser = ACCEPT_LANGUAGE -> accept_language(neg.headers, FALSE)
      [] OTHER -> accept(neg.headers, FALSE)

(* C5: for accept_encoding, accept_charset and accept_language the flag    *)
(* adds identity / * at quality 1.0 exactly when the header does not list  *)
(* that token and alters nothing else: listed, the flagged result is the   *)
(* flag-less one; not listed, it is the flag-less one plus that one entry; *)
(* without the flag the entry is present only when listed.                 *)
C5_FlagAddsOnlyWhenAbsent ==
    (NegDone /\ neg.parser # ACCEPT) =>
        /\ neg.out.ok = NegFlagless.ok
        /\ (neg.out.ok /\ ~neg.flag) =>
               (DictHas(neg.out.val[1], NegImplicit) <=> NegListed(NegImplicit))
        /\ (neg.flag /\ NegListed(NegImplicit)) => neg.out = NegFlagless
        /\ (neg.out.ok /\ neg.flag /\ ~NegListed(NegImplicit)) =>
               /\ ~DictHas(NegFlagless.val[1], NegImplicit)
               /\ neg.out.val[1] = Append(NegFlagless.val[1], <<NegImplicit, 1000>>)

C5_Witness ==
    /\ NegDone /\ neg.parser = ACCEPT_ENCODING /\ neg.flag
    /\ ~NegListed(b_identity) /\ Len(neg.items) = 2
    /\ neg.out.ok
    /\ DictGet(neg.out.val[1], b_identity) = 1000
    /\ DictHas(neg.out.val[1], b_gzip)

(***************************************************************************)
(* Properties of the date codec                                            *)
(***************************************************************************)
DtParsed == dt.pc \in {"parsed", "formatted", "done"}

(* The day name written in the text is the weekday of the date parsed *)
DtDayNameRight == dt.dow = DAY_NAMES[Weekday(dt.parsed.val) + 1]

(* C6 as stated: for every modern-form text that parse_date accepts,       *)
(* format_date(parse_date(d)) is exactly d, and parsing the formatted text *)
(* gives the same timestamp.                                               *)
C6_RoundTripEveryAccepted ==
    /\ (dt.form = "modern" /\ dt.pc \in {"formatted", "done"}) => dt.formatted = dt.text
    /\ (dt.form = "modern" /\ dt.pc = "done") => dt.reparsed = dt.parsed

(* C6 amended: the text is reproduced exactly when its day name is the     *)
(* weekday of its date (parse_date ignores the day name, format_date       *)
(* computes it), and otherwise only the day name differs; in both cases    *)
(* parsing the formatted text gives the same timestamp.                    *)
C6_RoundTripWhenDayNameRight ==
    /\ (dt.form = "modern" /\ dt.pc \in {"formatted", "done"}) =>
           /\ DtDayNameRight => dt.formatted = dt.text
           /\ SubSeq(dt.formatted, 4, Len(dt.formatted)) = SubSeq(dt.text, 4, Len(dt.text))
           /\ SubSeq(dt.formatted, 1, 3) = DAY_NAMES[Weekday(dt.parsed.val) + 1]
    /\ (dt.form = "modern" /\ dt.pc = "done") => dt.reparsed = dt.parsed

C6_Witness ==
    /\ dt.form = "modern" /\ dt.pc = "done" /\ DtDayNameRight
    /\ dt.formatted = dt.text
    /\ dt.reparsed = dt.parsed
    /\ dt.parsed.val.day = 29 /\ dt.parsed.val.month = 2

(* The written fields name a calendar date and a time of day *)
DtLegacyValid ==
    /\ dt.dd.num <= DaysInMonth(2000 + dt.year.num, dt.mon.num)
    /\ dt.hh.num <= 23

(* C7: a legacy-form text parses to the UTC timestamp whose year is        *)
(* 2000 + YY and whose month, day, hour, minute and second are those       *)
(* written; parse_date refuses it only when the written fields name no     *)
(* calendar date or time of day.                                           *)
C7_LegacyYearPlus2000 ==
    (dt.form = "legacy" /\ dt.pc # "start") =>
        /\ dt.parsed.ok <=> DtLegacyValid
        /\ dt.parsed.ok =>
               dt.parsed.val = [year |-> 2000 + dt.year.num, month |-> dt.mon.num,
                                day |-> dt.dd.num, hour |-> dt.hh.num,
                                minute |-> dt.ms.num, second |-> dt.ms.num]

C7_Witness ==
    /\ dt.form = "legacy" /\ DtParsed
    /\ dt.year.num = 99 /\ dt.parsed.val.year = 2099
    /\ dt.parsed.val.hour = 23

(***************************************************************************)
(* Properties of the cookie codec                                          *)
(***************************************************************************)
ScReservedName ==
    StartsWith(sc.name, b_Secure_prefix) \/ StartsWith(sc.name, b_Host_prefix)

(* C1: encode_set_cookie raises if and only if the name starts with        *)
(* __Secure- or __Host- and secure is false; in every other case,          *)
(* a reserved name with secure=True included, it returns the header.       *)
C1_PolicyErrorIffInsecure ==
    sc.pc # "start" => (~sc.out.ok <=> (ScReservedName /\ ~sc.secure))

(* The map without the names that have no value *)
CkNonEmpty(m) == SelectSeq(m, LAMBDA e : Len(e[2]) > 0)

(* C8 as stated: decode_cookies(encode_cookies(m)) == m for every map, the *)
(* empty map and names with an empty value list included.                  *)
C8_RoundTripEveryMap ==
    ck.pc = "done" => DictEq(ck.decoded, ck.m)

(* C8 amended: the round trip gives m back when m is not empty and every   *)
(* name has at least one value.  A name with no value leaves no trace in   *)
(* the header and is missing from the result, and a header with no morsel  *)
(* at all decodes to the one cookie with empty name and empty value.       *)
C8_RoundTripWhenEveryNameHasAValue ==
    ck.pc = "done" =>
        IF CkNonEmpty(ck.m) # <<>>
        THEN DictEq(ck.decoded, CkNonEmpty(ck.m))
        ELSE ck.decoded = <<<<<<>>, <<<<>>>>>>>>

C8_Witness ==
    /\ ck.pc = "done"
    /\ Len(ck.m) = 2
    /\ \A i \in 1..2 : Len(ck.m[i][2]) = 2
    /\ ck.m[1][2][1] # ck.m[1][2][2]
    /\ DictEq(ck.decoded, ck.m)

(***************************************************************************)
(* Properties of collect                                                   *)
(***************************************************************************)
(* The lines of the list that carry the header name, in order *)
ColLinesNamed(name) == SelectSeq(col.lines, LAMBDA l : l.name = name)

ColUnregistered == {"x-request-id", "x-trace"}

(* C9: for set-cookie and for every unregistered name, collect(headers)    *)
(* [name] is a list with one element per occurrence of the name, in        *)
(* encounter order: the decoded cookie record for set-cookie, the raw      *)
(* value for an unregistered name.                                         *)
C9_AppendOnePerOccurrence ==
    col.pc = "done" =>
        /\ \A name \in ColUnregistered \cup {SET_COOKIE} :
               DictHas(col.out.val, name) <=> ColLinesNamed(name) # <<>>
        /\ \A name \in ColUnregistered :
               DictHas(col.out.val, name) =>
                   DictGet(col.out.val, name)
                       = [i \in 1..Len(ColLinesNamed(name)) |-> ColLinesNamed(name)[i].value]
        /\ DictHas(col.out.val, SET_COOKIE) =>
               /\ Len(DictGet(col.out.val, SET_COOKIE)) = Len(ColLinesNamed(SET_COOKIE))
               /\ \A i \in 1..Len(ColLinesNamed(SET_COOKIE)) :
                      DictEq(DictGet(col.out.val, SET_COOKIE)[i],
                             ColLinesNamed(SET_COOKIE)[i].record)

C9_Witness ==
    /\ col.pc = "done"
    /\ Len(ColLinesNamed(SET_COOKIE)) = 2
    /\ ColLinesNamed(SET_COOKIE)[1] # ColLinesNamed(SET_COOKIE)[2]
    /\ Len(DictGet(col.out.val, SET_COOKIE)) = 2
    /\ Len(ColLinesNamed("x-request-id")) = 1

(* All the (name, value) pairs written on the Cookie lines, by line and    *)
(* then by position within the line                                        *)
RECURSIVE ColAllPairs(_)
ColAllPairs(lines) ==
    IF Len(lines) = 0 THEN <<>> ELSE lines[1].pairs \o ColAllPairs(Tail(lines))

ColCookiePairs == ColAllPairs(ColLinesNamed(COOKIE))

(* The values written for one cookie name, in that order *)
ColValuesOf(n) ==
    LET mine == SelectSeq(ColCookiePairs, LAMBDA p : p[1] = n)
    IN  [i \in 1..Len(mine) |-> mine[i][2]]

(* C10: with one or more Cookie lines, collect(headers)[b'cookie'] is one  *)
(* mapping in which each cookie name maps to the list of all its values    *)
(* across all the Cookie lines, by line and then by position; nothing is   *)
(* dropped or duplicated when names overlap between lines.                 *)
C10_ExtendMergesCookieLines ==
    (col.pc = "done" /\ ColLinesNamed(COOKIE) # <<>>) =>
        /\ DictHas(col.out.val, COOKIE)
        /\ LET cookies == DictGet(col.out.val, COOKIE)
           IN  /\ DictKeys(cookies) = {ColCookiePairs[i][1] : i \in 1..Len(ColCookiePairs)}
               /\ Len(cookies) = Cardinality(DictKeys(cookies))
               /\ \A n \in DictKeys(cookies) : DictGet(cookies, n) = ColValuesOf(n)

C10_Witness ==
    /\ col.pc = "done"
    /\ Len(ColLinesNamed(COOKIE)) = 3
    /\ DictGet(DictGet(col.out.val, COOKIE), <<"a">>) = <<<<"1">>, <<"2">>, <<"1">>>>
    /\ DictGet(DictGet(col.out.val, COOKIE), <<"b">>) = <<<<"3">>, <<"4">>>>

(***************************************************************************)
(* Properties of the compression middleware                                *)
(***************************************************************************)
MwReturned == mw.pc = "returned"

(* The quality the request's Accept-Encoding writes for a token, if any *)
MwWrites(tok, milli) ==
    \E i \in 1..Len(mw.items) :
        /\ mw.items[i].tok = tok /\ mw.items[i].qual.milli = milli
        /\ \A j \in (i + 1)..Len(mw.items) : mw.items[j].tok # tok

(* The encodings the client accepts with positive quality, as written *)
MwAcceptedPositive == {tok \in MwTokens : \E q \in {500, 1000} : MwWrites(tok, q)}

(* The response's current content-encoding *)
MwCurrentEncodings ==
    {tok \in MwTokens : find(CONTENT_ENCODING, mw.response.headers, None) = Some(tok)}

(* C2: for a 2xx response, when Accept-Encoding gives identity quality 0   *)
(* and no encoding accepted with positive quality is a registered codec or *)
(* the response's current content-encoding, __call__ returns status 406    *)
(* and not the handler's body.                                             *)
C2_IdentityRefusedGives406 ==
    (/\ MwReturned
     /\ mw.response.status >= 200 /\ mw.response.status < 300
     /\ MwWrites(b_identity, 0)
     /\ MwAcceptedPositive \cap (mw.self.compressors \cup MwCurrentEncodings) = {})
        => (mw.out.ok /\ mw.out.val.status = 406)

(* Headers of the collect driver that the registry merges by NONE, and by  *)
(* CONCAT                                                                  *)
ColNoneNames == {CONTENT_LENGTH, VARY}
ColConcatNames ==
    {ACCEPT_CH, CONTENT_SECURITY_POLICY, CONTENT_SECURITY_POLICY_REPORT_ONLY}

(* C11: when a header merged by NONE occurs on several lines,              *)
(* collect(headers)[name] is the parse result of the last occurrence only, *)
(* whatever the earlier occurrences hold.                                  *)
C11_NoneKeepsLastOccurrence ==
    col.pc = "done" =>
        \A name \in ColNoneNames :
            /\ DictHas(col.out.val, name) <=> ColLinesNamed(name) # <<>>
            /\ DictHas(col.out.val, name) =>
                   DictGet(col.out.val, name)
                       = ColLinesNamed(name)[Len(ColLinesNamed(name))].record

C11_Witness ==
    /\ col.pc = "done"
    /\ Len(ColLinesNamed(CONTENT_LENGTH)) = 2
    /\ ColLinesNamed(CONTENT_LENGTH)[1].record = 10
    /\ DictGet(col.out.val, CONTENT_LENGTH) = 20
    /\ Len(ColLinesNamed(VARY)) = 1

(* The items the lines stand for, by line and then by position in the line *)
RECURSIVE ColAllRecords(_)
ColAllRecords(lines) ==
    IF Len(lines) = 0 THEN <<>> ELSE lines[1].record \o ColAllRecords(Tail(lines))

(* C12: for accept-ch, content-security-policy and                         *)
(* content-security-policy-report-only on several lines,                   *)
(* collect(headers)[name] is the flat concatenation, in line order, of the *)
(* list parsed from each line.                                             *)
C12_ConcatFlattensInLineOrder ==
    col.pc = "done" =>
        \A name \in ColConcatNames :
            /\ DictHas(col.out.val, name) <=> ColLinesNamed(name) # <<>>
            /\ ColLinesNamed(name) # <<>> =>
                   DictGet(col.out.val, name) = ColAllRecords(ColLinesNamed(name))

C12_Witness ==
    /\ col.pc = "done"
    /\ Len(ColLinesNamed(CONTENT_SECURITY_POLICY)) = 2
    /\ ColLinesNamed(CONTENT_SECURITY_POLICY)[1] # ColLinesNamed(CONTENT_SECURITY_POLICY)[2]
    /\ Len(DictGet(col.out.val, CONTENT_SECURITY_POLICY)) = 3
    /\ Len(ColLinesNamed(ACCEPT_CH)) = 1

(* The chunks bytes_writer is to cut buf into: consecutive slices of       *)
(* chunk_size bytes, the last possibly shorter; buf itself for -1          *)
CzChunkCount ==
    IF cz.chunk_size = -1 THEN 1
    ELSE (Len(cz.buf) + cz.chunk_size - 1) \div cz.chunk_size

CzChunk(i) ==
    IF cz.chunk_size = -1 THEN cz.buf
    ELSE [j \in 1..(IF i * cz.chunk_size <= Len(cz.buf) THEN cz.chunk_size
                    ELSE Len(cz.buf) - (i - 1) * cz.chunk_size)
              |-> cz.buf[(i - 1) * cz.chunk_size + j]]

(* C13: for every buffer, every chunk_size that is -1 or positive and a    *)
(* matching gzip or deflate pair, reading back what compression_writer     *)
(* writes returns the buffer, empty and multi-chunk buffers included.      *)
C13_RoundTrip ==
    /\ cz.pc # "raised"
    /\ cz.pc = "returned" => cz.out = Ok(cz.buf)

C13_Witness ==
    /\ cz.pc = "returned"
    /\ cz.chunk_size = 2 /\ Len(cz.buf) = 3
    /\ Len(cz.items) = 3 /\ cz.items[1] = <<>> /\ cz.items[2] # <<>>
    /\ cz.out = Ok(cz.buf)

(* C14: compression_writer calls compress once per chunk, in order, on the *)
(* consecutive slices of the buffer, yields one item per compress call,    *)
(* then calls flush exactly once, after the last compress, and yields its  *)
(* result as the final item; flush is never called before the input is     *)
(* exhausted and never twice.                                              *)
C14_CompressPerChunkThenOneFlush ==
    cz.pc # "idle" =>
        /\ Len(cz.calls) <= CzChunkCount + 1
        /\ \A i \in 1..Len(cz.calls) :
               /\ cz.calls[i].op = (IF i <= CzChunkCount THEN "compress" ELSE "flush")
               /\ i <= CzChunkCount => cz.calls[i].arg = CzChunk(i)
        /\ cz.items = [i \in 1..Len(cz.calls) |-> cz.calls[i].out]
        /\ cz.exhausted <=> Len(cz.calls) = CzChunkCount + 1
        /\ cz.pc = "returned" => cz.exhausted

C14_Witness ==
    /\ cz.exhausted
    /\ cz.chunk_size = 2 /\ Len(cz.buf) = 3
    /\ Len(cz.calls) = 3
    /\ cz.calls[2].arg = <<cz.buf[3]>>
    /\ cz.calls[3].op = "flush"

(* The handler's response is outside 200..299 *)
MwNotSuccess == mw.response.status < 200 \/ mw.response.status >= 300

(* __call__ returned the handler's response as it was *)
MwUnchanged ==
    mw.out.ok /\ mw.out.val.kind = "response" /\ mw.out.val = mw.response

(* C15: for a handler response whose status is below 200 or at least 300,  *)
(* __call__ returns the handler's status, headers, body and pushes         *)
(* unchanged, whatever the request's Accept-Encoding says.                 *)
C15_NonSuccessPassesThrough ==
    (MwReturned /\ MwNotSuccess) => MwUnchanged

C15_Witness ==
    /\ MwReturned /\ mw.response.status = 300
    /\ MwWrites(b_identity, 0) /\ MwWrites(b_gzip, 1000)
    /\ b_gzip \in mw.self.compressors
    /\ find(CONTENT_LENGTH, mw.response.headers, None) = None
    /\ MwUnchanged

(* The quality a mapping gives an encoding it holds *)
GtQuality(e) == DictGet(gt.accept_encoding, e)

(* The encodings the mapping accepts with non-zero quality *)
GtNonZero == {e \in MwTokens : DictHas(gt.accept_encoding, e) /\ GtQuality(e) # 0}

(* The response's content-encoding without identity *)
GtCurrent == {gt.content_encoding[i] : i \in 1..Len(gt.content_encoding)} \ {b_identity}

GtMustRefuse ==
    /\ GtQuality(b_identity) = 0
    /\ \A e \in GtNonZero : e \notin gt.self.compressors /\ e \notin GtCurrent

(* C16: is_acceptable returns False if and only if accept_encoding gives   *)
(* identity quality 0 and no encoding of non-zero quality is a registered  *)
(* codec or in content_encoding without identity; whenever it returns      *)
(* False, __call__ returns 406 and never the handler's body.               *)
C16_RefusesIffNothingAcceptable ==
    /\ (gt.pc = "returned" /\ gt.op = "is_acceptable") =>
           (gt.out = FALSE <=> GtMustRefuse)
    /\ (gt.pc = "returned" /\ gt.op = "__call__" /\ GtMustRefuse) =>
           gt.out = Ok(BareStatus(406))

C16_Witness ==
    /\ gt.pc = "returned" /\ gt.op = "is_acceptable" /\ gt.out = FALSE
    /\ gt.self.compressors = {b_gzip}
    /\ gt.accept_encoding = <<<<b_gzip, 0>>, <<b_br, 500>>, <<b_identity, 0>>>>
    /\ gt.content_encoding = <<b_identity>>

(* The encodings select_encoding may choose from *)
GtCandidates == (GtNonZero \cap gt.self.compressors) \ {b_identity}

(* C18: select_encoding returns a registered codec that is not identity,   *)
(* has non-zero quality, and whose quality is the lowest among all the     *)
(* encodings with those three properties.                                  *)
C18_SelectsLowestRegistered ==
    (gt.pc = "returned" /\ gt.op = "select_encoding") =>
        /\ gt.out.ok <=> GtCandidates # {}
        /\ gt.out.ok =>
               /\ gt.out.val \in GtCandidates
               /\ \A e \in GtCandidates : GtQuality(gt.out.val) <= GtQuality(e)

C18_Witness ==
    /\ gt.pc = "returned" /\ gt.op = "select_encoding"
    /\ gt.self.compressors = {b_gzip, b_deflate}
    /\ gt.accept_encoding = <<<<b_gzip, 1000>>, <<b_deflate, 500>>, <<b_identity, 1000>>>>
    /\ gt.out = Ok(b_deflate)

MwSuccess == mw.response.status >= 200 /\ mw.response.status < 300

(* __call__ returned a response whose body is wrapped in the compressor    *)
(* adapter                                                                 *)
MwWrapped ==
    /\ mw.out.ok /\ mw.out.val.kind = "response"
    /\ mw.out.val.body.adapter = "compression_writer_adapter"

(* (a) a Content-Length is present and below minimum_size *)
MwTooSmall ==
    /\ content_length(mw.response.headers).val # None
    /\ content_length(mw.response.headers).val[1] < mw.self.minimum_size

(* (b) the response's Content-Encoding holds a non-identity encoding the   *)
(* client accepts with non-zero quality                                    *)
MwAlreadyEncoded == (MwCurrentEncodings \ {b_identity}) \cap MwAcceptedPositive # {}

(* (c) no registered codec is accepted by the client with non-zero quality *)
MwNoCodec == (mw.self.compressors \ {b_identity}) \cap MwAcceptedPositive = {}

(* C17: for a 2xx response that passed acceptability, __call__ returns the *)
(* handler's response unchanged if and only if (a) a Content-Length is     *)
(* present and below minimum_size, or (b) the response's Content-Encoding  *)
(* holds a non-identity encoding the client accepts with non-zero quality, *)
(* or (c) no registered codec is accepted by the client with non-zero      *)
(* quality; in every other case the body is compressed.                    *)
C17_UnchangedIffNotDesirable ==
    (MwReturned /\ MwSuccess /\ mw.out.ok /\ mw.out.val.kind = "response") =>
        IF MwTooSmall \/ MwAlreadyEncoded \/ MwNoCodec THEN MwUnchanged ELSE MwWrapped

(* How many times sub occurs in s, from position from on *)
RECURSIVE Occurrences(_, _, _)
Occurrences(sub, s, from) ==
    IF FindFrom(s, sub, from) = 0 THEN 0
    ELSE 1 + Occurrences(sub, s, FindFrom(s, sub, from) + Len(sub))

(* C19: whenever the middleware compresses a response, the returned header *)
(* list has no content-length, exactly one content-encoding whose value is *)
(* the encoding chosen by select_encoding, and exactly one vary in which   *)
(* accept-encoding appears exactly once.                                   *)
C19_CompressedHeaders ==
    (MwReturned /\ MwWrapped) =>
        /\ find_all(CONTENT_LENGTH, mw.out.val.headers) = <<>>
        /\ find_all(CONTENT_ENCODING, mw.out.val.headers)
               = <<select_encoding(mw.self,
                      OrDefault(accept_encoding(mw.scope_headers, TRUE).val,
                                <<<<b_identity, 1000>>>>)).val>>
        /\ Len(find_all(VARY, mw.out.val.headers)) = 1
        /\ Occurrences(b_accept_encoding, find_all(VARY, mw.out.val.headers)[1], 1) = 1

(* The positions of a header list that hold the name *)
UpPositions(name, headers) == {i \in 1..Len(headers) : headers[i][1] = name}

UpDuplicateFree(headers) ==
    \A i, j \in 1..Len(headers) : headers[i][1] = headers[j][1] => i = j

(* C20: after upsert(name, value, headers), find(name, headers) is value;  *)
(* if name was present only its first position is rewritten to            *)
(* (name, value), the length and every other position are unchanged and    *)
(* the entries named name do not increase; if name was absent the list is  *)
(* the old list with (name, value) appended last.  After any sequence of   *)
(* upserts on an initially duplicate-free list, no name is duplicated.     *)
C20_UpsertOverwritesFirstOrAppends ==
    /\ up.pc = "ready" /\ up.calls > 0 =>
           /\ find(up.name, up.headers, None) = Some(up.value)
           /\ IF UpPositions(up.name, up.before) # {}
              THEN /\ Len(up.headers) = Len(up.before)
                   /\ \A i \in 1..Len(up.before) :
                          IF /\ i \in UpPositions(up.name, up.before)
                             /\ \A j \in UpPositions(up.name, up.before) : i <= j
                          THEN up.headers[i] = <<up.name, up.value>>
                          ELSE up.headers[i] = up.before[i]
                   /\ Cardinality(UpPositions(up.name, up.headers))
                          <= Cardinality(UpPositions(up.name, up.before))
              ELSE up.headers = Append(up.before, <<up.name, up.value>>)
    /\ up.pc = "ready" /\ UpDuplicateFree(up.initial) => UpDuplicateFree(up.headers)

C20_Witness ==
    /\ up.pc = "ready" /\ up.calls = 2
    /\ UpDuplicateFree(up.initial) /\ Len(up.initial) = 1
    /\ Len(up.headers) = 2
    /\ up.headers[1] # up.initial[1]
    /\ up.headers[1][1] = up.name

(* C21: for every Set-Cookie value s that encode_set_cookie produces from  *)
(* a name, a value and any subset of Expires, Max-Age, Domain, Path,       *)
(* Secure, HttpOnly and SameSite, encode_set_cookie called with the       *)
(* keywords decode_set_cookie(s) returns gives s again.                    *)
C21_SetCookieRoundTrip ==
    /\ sc.pc = "decoded" => sc.decoded.ok
    /\ sc.pc = "reencoded" => (sc.again.ok /\ sc.again.val = sc.out.val)

(* One attribute segment: whether it was supplied, and its text *)
ScSegment(present, key, text) == [present |-> present, text |-> key \o text]

(* The segments in the fixed order, for the given Expires and Max-Age *)
ScSegments(expiry, seconds) ==
    << ScSegment(expiry # None, <<"E", "x", "p", "i", "r", "e", "s", "=">>,
                 IF expiry # None THEN format_date(expiry[1]) ELSE <<>>),
       ScSegment(seconds # None, <<"M", "a", "x", "-", "A", "g", "e", "=">>,
                 IF seconds # None THEN IntToStr(seconds[1]) ELSE <<>>),
       ScSegment(sc.domain # None, <<"D", "o", "m", "a", "i", "n", "=">>,
                 IF sc.domain # None THEN sc.domain[1] ELSE <<>>),
       ScSegment(sc.path # None, <<"P", "a", "t", "h", "=">>,
                 IF sc.path # None THEN sc.path[1] ELSE <<>>),
       ScSegment(sc.secure, <<"S", "e", "c", "u", "r", "e">>, <<>>),
       ScSegment(sc.http_only, <<"H", "t", "t", "p", "O", "n", "l", "y">>, <<>>),
       ScSegment(sc.same_site # None, <<"S", "a", "m", "e", "S", "i", "t", "e", "=">>,
                 IF sc.same_site # None THEN sc.same_site[1] ELSE <<>>) >>

(* name=value, then the supplied segments, each introduced by "; " *)
ScExpected(expiry, seconds) ==
    LET supplied == SelectSeq(ScSegments(expiry, seconds), LAMBDA g : g.present)
    IN  Join(<<sc.name \o <<"=">> \o sc.value>>
                 \o [i \in 1..Len(supplied) |-> supplied[i].text], <<";", " ">>)

(* The expires argument make_cookie was called with *)
ScMadeWith == sc.made_with[1]

(* C22: the output of encode_set_cookie is name=value followed by one      *)
(* segment per supplied attribute and none for an absent one, in the order *)
(* Expires, Max-Age, Domain, Path, Secure, HttpOnly, SameSite, each        *)
(* introduced by "; "; through make_cookie a datetime expires gives the    *)
(* Expires segment and a timedelta expires the Max-Age segment in seconds. *)
C22_SegmentsInFixedOrder ==
    /\ sc.pc = "encoded" =>
           sc.out.val = ScExpected(sc.expires,
                                   IF sc.max_age # None THEN Some(sc.max_age[1].seconds)
                                   ELSE None)
    /\ sc.pc = "made" =>
           sc.out.val = ScExpected(
               IF ScMadeWith # None /\ ScMadeWith[1].kind = "datetime"
               THEN Some(ScMadeWith[1].at) ELSE None,
               IF ScMadeWith # None /\ ScMadeWith[1].kind = "timedelta"
               THEN Some(ScMadeWith[1].seconds) ELSE None)

C22_Witness ==
    /\ sc.pc = "made"
    /\ ScMadeWith # None /\ ScMadeWith[1].kind = "timedelta" /\ ScMadeWith[1].seconds = 90
    /\ sc.path # None /\ sc.domain # None /\ sc.http_only /\ ~sc.secure
    /\ sc.same_site # None
    /\ Len(Split(sc.out.val, <<";", " ">>)) = 6

RECURSIVE Concat(_)
Concat(seqs) == IF Len(seqs) = 0 THEN <<>> ELSE seqs[1] \o Concat(Tail(seqs))

(* chunk_size is -1 or a positive integer *)
StSizeAsDocumented == st.chunk_size = 0 - 1 \/ st.chunk_size > 0

(* C23: for every buffer and every chunk_size that is -1 or positive,      *)
(* bytes_reader(bytes_writer(buf, chunk_size)) is buf: the chunks are      *)
(* consecutive, non-overlapping slices that cover the buffer in order,     *)
(* each of exactly chunk_size bytes except possibly the last.              *)
C23_ChunksCoverTheBuffer ==
    (st.pc = "returned" /\ StSizeAsDocumented) =>
        /\ st.out = Ok(st.buf)
        /\ Concat(st.chunks) = st.buf
        /\ st.chunk_size > 0 =>
               /\ \A i \in 1..(Len(st.chunks) - 1) : Len(st.chunks[i]) = st.chunk_size
               /\ st.chunks # <<>> =>
                      /\ Len(st.chunks[Len(st.chunks)]) >= 1
                      /\ Len(st.chunks[Len(st.chunks)]) <= st.chunk_size
        /\ st.chunk_size = 0 - 1 => st.chunks = <<st.buf>>

C23_Witness ==
    /\ st.pc = "returned" /\ st.chunk_size = 2 /\ Len(st.buf) = 3
    /\ Len(st.chunks) = 2 /\ Len(st.chunks[2]) = 1
    /\ st.out = Ok(st.buf)

(* C25: for every buffer and every integer chunk_size, 0 and negative      *)
(* values other than -1 included, the sequence bytes_writer produces is    *)
(* finite: a consumer that keeps pulling reaches its end.                  *)
C25_WriterEnds == <>(st.pc = "returned")

(***************************************************************************)
(* Properties of the accessors and the registry                            *)
(***************************************************************************)
HdIsDate == hd.written.form # "none"

(* The year a date header's written year denotes *)
HdYear == IF hd.written.form = "legacy" THEN 2000 + hd.written.year ELSE hd.written.year

(* The written fields name a calendar date and a time of day *)
HdWrittenValid ==
    /\ HdYear \in 1..9999
    /\ hd.written.dd <= DaysInMonth(HdYear, hd.written.mon)
    /\ hd.written.hh <= 23

HdWrittenDate ==
    [year |-> HdYear, month |-> hd.written.mon, day |-> hd.written.dd,
     hour |-> hd.written.hh, minute |-> hd.written.ms, second |-> hd.written.ms]

(* A date header read as the date codec reads it *)
HdFollowsCodec(r) ==
    /\ r.ok <=> HdWrittenValid
    /\ r.ok => r.val = Some(HdWrittenDate)

(* C26: date, expires, if-modified-since and last-modified, read through   *)
(* their accessors and through collect, parse a value in the modern form,  *)
(* parse a value in the legacy two-digit-year form to the timestamp with   *)
(* year 2000 + YY, and fail only on a value that names no date.            *)
C26_RegistryDatesFollowCodec ==
    /\ (HdIsDate /\ hd.pc \in {"accessed", "collected"}) => HdFollowsCodec(hd.accessed)
    /\ (HdIsDate /\ hd.pc = "collected") => HdFollowsCodec(hd.collected)

(* C28: for a header registered with NONE merge that has an accessor, in a *)
(* list holding it once with a value the accessor parses,                  *)
(* collect(headers)[name] equals accessor(headers).                        *)
C28_CollectEqualsAccessor ==
    (hd.pc = "collected" /\ hd.accessed.ok) =>
        /\ hd.collected.ok
        /\ hd.collected.type = hd.accessed.type
        /\ hd.collected.val = hd.accessed.val

(***************************************************************************)
(* Properties of the middleware's compressors across requests              *)
(***************************************************************************)
CcCompressedStreams == {i \in 1..Len(cc.streams) : cc.streams[i].compressed}

(* The calls one compressor object has received, in order *)
CcCallsOf(k) == cc.calls[k]

CcFlushesOf(k) == SelectSeq(CcCallsOf(k), LAMBDA c : c.op = "flush")

(* C24: every compressed response has a compressor from its own factory    *)
(* call: no compressor is called from two streams, none is called after    *)
(* its flush, and a stream that has ended flushed its compressor exactly   *)
(* once.                                                                   *)
C24_EachStreamOwnsItsCompressor ==
    cc.pc = "serving" =>
        /\ \A i, j \in CcCompressedStreams :
               i # j => cc.streams[i].compressobj # cc.streams[j].compressobj
        /\ \A k \in 1..Len(cc.calls) : \A e \in 1..Len(cc.calls[k]) :
               cc.streams[cc.calls[k][e].stream].compressobj = k
        /\ \A i \in CcCompressedStreams :
               \E mine \in {CcCallsOf(cc.streams[i].compressobj)} :
                   /\ \A e \in 1..Len(mine) :
                          /\ mine[e].stream = i
                          /\ mine[e].op = "flush" => e = Len(mine)
                   /\ cc.streams[i].phase \in {"flushed", "ended"} =>
                          /\ Len(CcFlushesOf(cc.streams[i].compressobj)) = 1
                          /\ mine[Len(mine)].op = "flush"
                   /\ cc.streams[i].phase = "open" =>
                          Len(CcFlushesOf(cc.streams[i].compressobj)) = 0

(* Two compressed streams of one encoding in flight together: the first    *)
(* has flushed, the second has compressed one chunk and has one to go      *)
C24_Witness ==
    /\ cc.pc = "serving"
    /\ Len(cc.streams) = 2
    /\ \A i \in 1..2 : cc.streams[i].compressed
    /\ cc.streams[1].encoding = cc.streams[2].encoding
    /\ cc.streams[1].phase = "flushed" /\ Len(CcCallsOf(cc.streams[1].compressobj)) = 2
    /\ cc.streams[2].phase = "open" /\ cc.streams[2].pending = 1
    /\ Len(CcCallsOf(cc.streams[2].compressobj)) = 1

(***************************************************************************)
(* The middleware's choice of codec                                        *)
(***************************************************************************)
(* accept_encoding and content_encoding as __call__ computes them *)
MwAcceptEnc ==
    OrDefault(accept_encoding(mw.scope_headers, TRUE).val, <<<<b_identity, 1000>>>>)

MwContentEnc == OrDefault(content_encoding(mw.response.headers, FALSE), <<b_identity>>)

(* __call__ gets as far as select_encoding: a 2xx status, both gates passed *)
MwReachesSelect ==
    /\ MwSuccess
    /\ accept_encoding(mw.scope_headers, TRUE).ok
    /\ is_acceptable(mw.self, MwAcceptEnc, MwContentEnc)
    /\ content_length(mw.response.headers).ok
    /\ is_desirable(mw.self, MwAcceptEnc, MwContentEnc,
                    content_length(mw.response.headers).val)

(* C27: whenever __call__ reaches select_encoding, select_encoding finds a *)
(* candidate, the candidate is a key of self.compressors, and __call__     *)
(* returns the body wrapped with that codec's compressor.                  *)
C27_SelectEncodingNeverFails ==
    (MwReturned /\ MwReachesSelect) =>
        \E e \in {select_encoding(mw.self, MwAcceptEnc)} :
            /\ e.ok
            /\ e.val \in mw.self.compressors
            /\ MwWrapped
            /\ mw.out.val.body.compressobj = e.val

(* The client prefers br, which has no factory; gzip is selected *)
C27_Witness ==
    /\ MwReturned /\ MwReachesSelect /\ MwWrapped
    /\ mw.self.compressors = {b_gzip}
    /\ DictHas(MwAcceptEnc, b_br) /\ DictGet(MwAcceptEnc, b_br) = 1000
    /\ DictGet(MwAcceptEnc, b_gzip) = 500
    /\ mw.out.val.body.compressobj = b_gzip

(* The field names listed in the Vary lines of a header list *)
MwVaryFields(headers) ==
    UNION {SeqToSet(_parse_vary(line)) : line \in SeqToSet(find_all(VARY, headers))}

(* The headers the rewrite is to leave alone *)
MwOtherHeaders(headers) ==
    SelectSeq(headers, LAMBDA h : h[1] \notin {CONTENT_LENGTH, CONTENT_ENCODING, VARY})

(* C29: when the middleware compresses a response, every field name listed *)
(* in any Vary line of the handler's response is listed in the rewritten   *)
(* response's Vary header, and the headers other than content-length,      *)
(* content-encoding and vary are kept with their values and in order.      *)
C29_NoVaryFieldLost ==
    (MwReturned /\ MwWrapped) =>
        /\ MwVaryFields(mw.response.headers) \subseteq MwVaryFields(mw.out.val.headers)
        /\ MwOtherHeaders(mw.out.val.headers) = MwOtherHeaders(mw.response.headers)

(* C30: decode_set_cookie returns a record for every Set-Cookie value      *)
(* whose first segment contains "=": the name is the text before the first *)
(* "=" and the value is everything after it, further "=" included.         *)
C30_DecodeKeepsEqualsInValue ==
    sc.pc \in {"decoded", "reencoded"} =>
        /\ sc.decoded.ok
        /\ DictGet(sc.decoded.val, k_name) = Val("bytes", sc.name)
        /\ DictGet(sc.decoded.val, k_value) = Val("bytes", sc.value)

====
